---- MODULE Spec2Model ----
(***************************************************************************)
(* The resumable evaluation engine of run-evaluation/handler.py: one       *)
(* EvaluationJob record in DynamoDB, the SQS queue that carries its job    *)
(* message, and the invocations of process_evaluation_job that load the    *)
(* checkpoint, walk the dataset, checkpoint and re-enqueue on timeout, and *)
(* write COMPLETED or FAILED.                                              *)
(*                                                                         *)
(* Numbers: a Python float in [0, 1] is a fixed-point integer in units of  *)
(* 10^-9 (Scale is 1.0), finer than both roundings of the code             *)
(* (round(x, 8) in save_checkpoint, round(x, 6) in the final write).       *)
(* Time: `now` is the ordinal of the delivery being processed.            *)
(***************************************************************************)
EXTENDS Integers, Sequences, FiniteSets, TLC

\* ------------------------------------------------------------------ bounds

\* Longest dataset (number of samples in metadata.jsonl).
MaxSamples == 3

\* Number of deliveries of the job message (first delivery, continuations,
\* SQS retries) after which the queue is no longer polled.
MaxDeliveries == 3

\* Longest dataset of a job whose message is delivered to two concurrent
\* invocations.
MaxConcurrentSamples == 2

\* The largest finite float of the box arithmetic (in place of 1.8e308): a
\* sum, difference or product beyond it is inf.
FloatMax == 100

\* Longest dataset of a job whose samples are given by predicted boxes.
MaxBoxSamples == 2

\* Longest dataset of a job whose samples are given by model responses.
MaxResponseSamples == 2

\* Longest dataset of a job whose samples fail with long or short messages
\* (more than MAX_SAMPLE_ERRORS failures fit in one invocation).
MaxErrorSamples == 12

\* The length of the message of an exception raised by a library call
\* (W&B, Hugging Face, SQS, DynamoDB): longer than any truncation.
ExceptionTextLength == 1500

\* The largest number of records in one SQS event.
MaxBatch == 2

\* The longest string given to levenshtein_distance.
MaxLen == 3

\* The longest prediction and ground truth given to calculate_single_anls.
MaxAnlsLen == 3

\* The largest number of lines of a prediction given to calculate_anls.
MaxLines == 2

\* The largest pixel coordinate and the largest image width and height
\* given to normalize_bbox.
MaxPixel == 3

MaxDimension == 2

\* ------------------------------------------------------- program constants

\* handler.py:293, str(e)[:100]
SAMPLE_ERROR_CHARS == 100

\* handler.py:296, len(failed_sample_errors) < 10
MAX_SAMPLE_ERRORS == 10

\* handler.py:343, failed_sample_errors[:3]
SUMMARY_ERRORS == 3

\* handler.py:385, str(e)[:1000]
FAILED_ERROR_CHARS == 1000


\* handler.py:39
CHECKPOINT_BUFFER_MS == 120000

\* 1.0 in fixed-point units.
Scale == 10^9

\* The concurrent executions of the Lambda function.
Procs == {1, 2}

\* ------------------------------------------------------------- arithmetic

\* The float values that are not numbers of the model: nan, inf and -inf.
NaN == 2^30 + (2^30 - 1)

PosInf == 2^30 + (2^30 - 2)

NegInf == -PosInf

IsNaN(x) == x = NaN

IsFinite(x) == x # NaN /\ x # PosInf /\ x # NegInf

\* a + b, a - b and a * b of two floats (IEEE: nan is contagious,
\* inf - inf and 0 * inf are nan).
FAdd(a, b) ==
    IF IsNaN(a) \/ IsNaN(b) THEN NaN
    ELSE IF ~IsFinite(a) THEN (IF ~IsFinite(b) /\ a # b THEN NaN ELSE a)
    ELSE IF ~IsFinite(b) THEN b
    ELSE a + b

FSub(a, b) == FAdd(a, IF IsNaN(b) THEN NaN ELSE -b)

FMul(a, b) ==
    IF IsNaN(a) \/ IsNaN(b) THEN NaN
    ELSE IF IsFinite(a) /\ IsFinite(b) THEN a * b
    ELSE IF a = 0 \/ b = 0 THEN NaN
    ELSE IF (a > 0) = (b > 0) THEN PosInf ELSE NegInf

\* a < b and a <= b of two floats: every comparison with nan is False.
FLt(a, b) == ~IsNaN(a) /\ ~IsNaN(b) /\ a < b

FLe(a, b) == ~IsNaN(a) /\ ~IsNaN(b) /\ a <= b

\* Python's max(a, b) and min(a, b): the first argument unless the second
\* is greater (resp. smaller).
PyMax(a, b) == IF FLt(a, b) THEN b ELSE a

PyMin(a, b) == IF FLt(b, a) THEN b ELSE a

\* x / n rounded to the nearest unit, ties to even (IEEE division, at the
\* resolution of the model).
FloatDiv(x, n) ==
    LET f == x \div n
        r == x - f * n
    IN  IF 2 * r < n THEN f
        ELSE IF 2 * r > n THEN f + 1
        ELSE IF f % 2 = 0 THEN f ELSE f + 1

\* Python's round(x, ndigits): the nearest multiple of 10^-ndigits, ties to
\* even.
Round(x, ndigits) ==
    LET q == 10^(9 - ndigits)
    IN  IF IsFinite(x) THEN FloatDiv(x, q) * q ELSE x

\* running + (value - running) / n
RunningUpdate(running, value, n) ==
    LET delta == FSub(value, running)
    IN  FAdd(running, IF IsFinite(delta) THEN FloatDiv(delta, n) ELSE delta)

\* dict.get(key, default)
Get(d, key, default) == IF key \in DOMAIN d THEN d[key] ELSE default

\* {}
EmptyDict == [k \in {} |-> 0]

\* DynamoDB update_item, SET part: the named attributes are written, every
\* other attribute of the item is kept.
UpdateSet(item, sets) ==
    [a \in (DOMAIN item) \cup (DOMAIN sets) |->
        IF a \in DOMAIN sets THEN sets[a] ELSE item[a]]

\* DynamoDB update_item, REMOVE part.
UpdateRemove(item, attr) == [a \in (DOMAIN item) \ {attr} |-> item[a]]

\* --------------------------------------------------------------- metrics

\* A float result of the box arithmetic: inf beyond FloatMax.
Overflow(x) ==
    IF ~IsFinite(x) THEN x
    ELSE IF x > FloatMax THEN PosInf
    ELSE IF x < -FloatMax THEN NegInf
    ELSE x

\* a / b for b # 0, as a fixed-point value (units of 10^-9), by long
\* division in two steps of 5 and 4 digits; inf / inf is nan, x / inf is 0.
Quotient(a, b) ==
    IF IsNaN(a) \/ IsNaN(b) THEN NaN
    ELSE IF ~IsFinite(a) THEN
        (IF ~IsFinite(b) THEN NaN
         ELSE IF (a > 0) = (b > 0) THEN PosInf ELSE NegInf)
    ELSE IF ~IsFinite(b) THEN 0
    ELSE LET na == IF a < 0 THEN -a ELSE a
             nb == IF b < 0 THEN -b ELSE b
             q1 == (na * 10^5) \div nb
             r1 == (na * 10^5) % nb
             q  == q1 * 10^4 + FloatDiv(r1 * 10^4, nb)
         IN  IF (a < 0) = (b < 0) THEN q ELSE -q

\* A str is a sequence of characters.  str.lower() on the characters of the
\* model's alphabet.
Lower(s) ==
    [k \in 1..Len(s) |->
        IF s[k] = "A" THEN "a" ELSE IF s[k] = "B" THEN "b" ELSE s[k]]

\* The whitespace characters of the model's alphabet.
IsSpace(c) == c \in {" ", "\n"}

\* str.strip(): leading and trailing whitespace removed.
RECURSIVE Strip(_)
Strip(s) ==
    IF s = <<>> THEN s
    ELSE IF IsSpace(Head(s)) THEN Strip(Tail(s))
    ELSE IF IsSpace(s[Len(s)]) THEN Strip(SubSeq(s, 1, Len(s) - 1))
    ELSE s

\* str.split('\n'): the pieces between newlines (one piece more than there
\* are newlines).
RECURSIVE SplitLines(_)
SplitLines(s) ==
    IF \A k \in 1..Len(s) : s[k] # "\n" THEN <<s>>
    ELSE LET k == CHOOSE k \in 1..Len(s) :
                    s[k] = "\n" /\ \A j \in 1..(k - 1) : s[j] # "\n"
         IN  <<SubSeq(s, 1, k - 1)>> \o SplitLines(SubSeq(s, k + 1, Len(s)))

\* Mutant of Min3: the insertion is always taken.
Min3_First(a, b, c) == a

Min3(a, b, c) ==
    IF a <= b /\ a <= c THEN a ELSE IF b <= c THEN b ELSE c

\* Mutant of CurrRow: replacing the character "a" of s1 costs nothing.
RECURSIVE CurrRow_FreeSubstitution(_, _, _, _)
CurrRow_FreeSubstitution(prev_row, c1, s2, curr_row) ==
    IF Len(curr_row) = Len(s2) + 1 THEN curr_row
    ELSE LET j == Len(curr_row)
             insertions    == prev_row[j + 1] + 1
             deletions     == curr_row[j] + 1
             substitutions == prev_row[j]
                                + (IF c1 # s2[j] /\ c1 # "a" THEN 1 ELSE 0)
         IN  CurrRow_FreeSubstitution(prev_row, c1, s2,
                     Append(curr_row, Min3(insertions, deletions, substitutions)))

\* One pass of the inner loop of levenshtein_distance: curr_row for the
\* character c1 at (0-based) index i of s1, built left to right from
\* curr_row = [i + 1].
RECURSIVE CurrRow(_, _, _, _)
CurrRow(prev_row, c1, s2, curr_row) ==
    IF Len(curr_row) = Len(s2) + 1 THEN curr_row
    ELSE LET j == Len(curr_row)          \* 1-based index of c2 in s2
             insertions    == prev_row[j + 1] + 1
             deletions     == curr_row[j] + 1
             substitutions == prev_row[j] + (IF c1 # s2[j] THEN 1 ELSE 0)
         IN  CurrRow(prev_row, c1, s2,
                     Append(curr_row, Min3(insertions, deletions, substitutions)))

\* The outer loop of levenshtein_distance from character i of s1 on.
RECURSIVE LevRows(_, _, _, _)
LevRows(s1, s2, i, prev_row) ==
    IF i > Len(s1) THEN prev_row
    ELSE LevRows(s1, s2, i + 1, CurrRow(prev_row, s1[i], s2, <<i>>))

\* metrics.py levenshtein_distance.
RECURSIVE levenshtein_distance(_, _)
levenshtein_distance(s1, s2) ==
    IF Len(s1) < Len(s2) THEN levenshtein_distance(s2, s1)
    ELSE IF Len(s2) = 0 THEN Len(s1)
    ELSE LET prev_row == LevRows(s1, s2, 1, [j \in 1..(Len(s2) + 1) |-> j - 1])
         IN  prev_row[Len(prev_row)]

\* The default threshold of calculate_anls and calculate_single_anls: 0.5.
DefaultThreshold == 5 * 10^8

\* Mutant of calculate_single_anls: a score equal to the threshold is
\* dropped.
calculate_single_anls_DropEqual(prediction, ground_truth, threshold) ==
    LET pred_norm == Strip(Lower(prediction))
        gt_norm   == Strip(Lower(ground_truth))
        lev_dist  == levenshtein_distance(pred_norm, gt_norm)
        max_len   == IF Len(pred_norm) >= Len(gt_norm)
                     THEN Len(pred_norm) ELSE Len(gt_norm)
        anls      == Scale - Quotient(lev_dist, max_len)
    IN  IF pred_norm = <<>> /\ gt_norm = <<>> THEN Scale
        ELSE IF pred_norm = <<>> \/ gt_norm = <<>> THEN 0
        ELSE IF anls <= threshold THEN 0
        ELSE anls

\* metrics.py calculate_single_anls.
calculate_single_anls(prediction, ground_truth, threshold) ==
    LET pred_norm == Strip(Lower(prediction))
        gt_norm   == Strip(Lower(ground_truth))
        lev_dist  == levenshtein_distance(pred_norm, gt_norm)
        max_len   == IF Len(pred_norm) >= Len(gt_norm)
                     THEN Len(pred_norm) ELSE Len(gt_norm)
        anls      == Scale - Quotient(lev_dist, max_len)
    IN  IF pred_norm = <<>> /\ gt_norm = <<>> THEN Scale
        ELSE IF pred_norm = <<>> \/ gt_norm = <<>> THEN 0
        ELSE IF anls < threshold THEN 0
        ELSE anls

\* Mutant of BestAnls: the score against the last prediction item.
BestAnls_Last(pred_items, gt, threshold, k, best_anls) ==
    IF pred_items = <<>> THEN best_anls
    ELSE calculate_single_anls(pred_items[Len(pred_items)], gt, threshold)

\* The best score of one ground truth over the prediction items, from item
\* k on (best_anls = max(best_anls, anls), starting from 0.0).
RECURSIVE BestAnls(_, _, _, _, _)
BestAnls(pred_items, gt, threshold, k, best_anls) ==
    IF k > Len(pred_items) THEN best_anls
    ELSE BestAnls(pred_items, gt, threshold, k + 1,
                  PyMax(best_anls,
                        calculate_single_anls(pred_items[k], gt, threshold)))

\* total_anls over the ground truths from item k on.
RECURSIVE TotalAnls(_, _, _, _)
TotalAnls(pred_items, ground_truths, threshold, k) ==
    IF k > Len(ground_truths) THEN 0
    ELSE BestAnls(pred_items, ground_truths[k], threshold, 1, 0)
            + TotalAnls(pred_items, ground_truths, threshold, k + 1)

\* Mutant of NonEmptyStripped: only the first line is kept.
NonEmptyStripped_FirstOnly(lines) ==
    IF lines = <<>> \/ Strip(Head(lines)) = <<>> THEN <<>>
    ELSE <<Strip(Head(lines))>>

\* The stripped, non-empty lines of a sequence of lines.
RECURSIVE NonEmptyStripped(_)
NonEmptyStripped(lines) ==
    IF lines = <<>> THEN <<>>
    ELSE (IF Strip(Head(lines)) # <<>> THEN <<Strip(Head(lines))>> ELSE <<>>)
            \o NonEmptyStripped(Tail(lines))

\* Mutant of calculate_anls: the total is divided by the number of
\* prediction items when there are more of them than ground truths.
calculate_anls_PenaliseExtra(prediction, ground_truths, threshold) ==
    IF ground_truths = <<>> THEN 0
    ELSE IF Len(ground_truths) = 1
    THEN calculate_single_anls(prediction, ground_truths[1], threshold)
    ELSE LET pred_items == NonEmptyStripped(SplitLines(prediction))
         IN  IF pred_items = <<>> THEN 0
             ELSE FloatDiv(TotalAnls(pred_items, ground_truths, threshold, 1),
                           IF Len(pred_items) > Len(ground_truths)
                           THEN Len(pred_items) ELSE Len(ground_truths))

\* metrics.py calculate_anls.
calculate_anls(prediction, ground_truths, threshold) ==
    IF ground_truths = <<>> THEN 0
    ELSE IF Len(ground_truths) = 1
    THEN calculate_single_anls(prediction, ground_truths[1], threshold)
    ELSE LET pred_items == NonEmptyStripped(SplitLines(prediction))
         IN  IF pred_items = <<>> THEN 0
             ELSE FloatDiv(TotalAnls(pred_items, ground_truths, threshold, 1),
                           Len(ground_truths))

\* metrics.py calculate_iou; a box is a sequence of coordinates.
calculate_iou(pred_bbox, gt_bbox) ==
    IF Len(pred_bbox) # 4 \/ Len(gt_bbox) # 4 THEN 0
    ELSE
        LET x1 == PyMax(pred_bbox[1], gt_bbox[1])
            y1 == PyMax(pred_bbox[2], gt_bbox[2])
            x2 == PyMin(pred_bbox[3], gt_bbox[3])
            y2 == PyMin(pred_bbox[4], gt_bbox[4])
            intersection ==
                Overflow(FMul(PyMax(0, Overflow(FSub(x2, x1))),
                              PyMax(0, Overflow(FSub(y2, y1)))))
            pred_area ==
                Overflow(FMul(Overflow(FSub(pred_bbox[3], pred_bbox[1])),
                              Overflow(FSub(pred_bbox[4], pred_bbox[2]))))
            gt_area ==
                Overflow(FMul(Overflow(FSub(gt_bbox[3], gt_bbox[1])),
                              Overflow(FSub(gt_bbox[4], gt_bbox[2]))))
            union ==
                Overflow(FSub(Overflow(FAdd(pred_area, gt_area)),
                              intersection))
        IN  IF FLe(union, 0) THEN 0 ELSE Quotient(intersection, union)

\* 1.0 in the units of the results of normalize_bbox, 10^-6 (a quotient
\* of 3.0 in units of 10^-9 is beyond 32-bit integers).
Micro == 10^6

\* v / side for side > 0, in units of 10^-6: inf / side is inf, nan / side
\* is nan.
PixelQuotient(v, side) ==
    IF IsFinite(v) THEN FloatDiv(v * Micro, side) ELSE v

\* Mutant of normalize_bbox: the quotients are not clamped.
normalize_bbox_NoClamp(bbox, width, height) ==
    IF width <= 0 \/ height <= 0 THEN <<0, 0, Micro, Micro>>
    ELSE << PixelQuotient(bbox[1], width), PixelQuotient(bbox[2], height),
            PixelQuotient(bbox[3], width), PixelQuotient(bbox[4], height) >>

\* metrics.py normalize_bbox for a list of 4 numbers (float(v) of a number
\* is the number).
normalize_bbox(bbox, width, height) ==
    IF width <= 0 \/ height <= 0 THEN <<0, 0, Micro, Micro>>
    ELSE << PyMax(0, PyMin(Micro, PixelQuotient(bbox[1], width))),
            PyMax(0, PyMin(Micro, PixelQuotient(bbox[2], height))),
            PyMax(0, PyMin(Micro, PixelQuotient(bbox[3], width))),
            PyMax(0, PyMin(Micro, PixelQuotient(bbox[4], height))) >>

\* ------------------------------------------------------------ error texts

\* An error text is described by what it says (text), the diagnostic entries
\* it is built from (entries) and its length in characters (len).

Min(a, b) == IF a <= b THEN a ELSE b

\* len(str(n)) for n >= 0
RECURSIVE Digits(_)
Digits(n) == IF n < 10 THEN 1 ELSE 1 + Digits(n \div 10)

\* error_msg = f'Sample {i}: {str(e)[:100]}' for an exception whose message
\* has e_len characters: the index and the characters of exception text kept.
SampleError(i, e_len) == [index |-> i, chars |-> Min(e_len, SAMPLE_ERROR_CHARS)]

\* len(error_msg): 'Sample ', the index, ': ', the exception text.
SampleErrorLen(entry) == 7 + Digits(entry.index) + 2 + entry.chars

\* Mutant of RetainError: every error message is kept.
RetainError_All(failed_sample_errors, error_msg) ==
    Append(failed_sample_errors, error_msg)

\* if len(failed_sample_errors) < 10: failed_sample_errors.append(error_msg)
RetainError(failed_sample_errors, error_msg) ==
    IF Len(failed_sample_errors) < MAX_SAMPLE_ERRORS
    THEN Append(failed_sample_errors, error_msg)
    ELSE failed_sample_errors

\* failed_sample_errors[:3]
FirstErrors(failed_sample_errors) ==
    SubSeq(failed_sample_errors, 1, Min(Len(failed_sample_errors), SUMMARY_ERRORS))

\* len("; ".join(entries))
RECURSIVE JoinLen(_)
JoinLen(entries) ==
    IF entries = <<>> THEN 0
    ELSE IF Len(entries) = 1 THEN SampleErrorLen(entries[1])
    ELSE SampleErrorLen(entries[1]) + 2 + JoinLen(Tail(entries))

\* f'{samples_failed} samples failed: {"; ".join(failed_sample_errors[:3])}'
ErrorSummary(samples_failed, failed_sample_errors) ==
    [text    |-> "samples failed",
     entries |-> FirstErrors(failed_sample_errors),
     len     |-> Digits(samples_failed) + 17
                    + JoinLen(FirstErrors(failed_sample_errors))]

\* RuntimeError(f'All {total_samples} samples failed to evaluate. '
\*              f'Errors: {"; ".join(failed_sample_errors[:3])}')
AllFailedError(total_samples, failed_sample_errors) ==
    [text    |-> "All samples failed to evaluate",
     entries |-> FirstErrors(failed_sample_errors),
     len     |-> 4 + Digits(total_samples) + 37
                    + JoinLen(FirstErrors(failed_sample_errors))]

\* An exception raised by a library call.
LibraryError == [text |-> "error", entries |-> <<>>, len |-> ExceptionTextLength]

\* --------------------------------------------------------------- dataset

\* What happens when sample i is evaluated: the predictor (or Image.open)
\* raises; the prediction is scored with (anls, iou); or the prediction is
\* scored and wandb.log then raises inside the per-sample try block.  The
\* outcome of a sample is fixed by the dataset (a deterministic predictor).
\* Scores: anls 1.0 (exact match) and 0.8 ("hello" against "hallo"); iou
\* 4e-9 and 9.98e-7 (a predicted box of 0.0001 x 0.00004, resp.
\* 0.001 x 0.000998, against the full-image box), whose mean lies within a
\* checkpoint rounding of a 6-place rounding boundary.
\* W&B is taken as configured: a run without it behaves as one in which no
\* W&B call raises.  error_len is the length of the message of the exception
\* raised (0 when none is).
Outcomes ==
    { [kind |-> "ok",            anls |-> Scale,               iou |-> 4,
       error_len |-> 0],
      [kind |-> "ok",            anls |-> 8 * (Scale \div 10), iou |-> 998,
       error_len |-> 0],
      [kind |-> "predict_error", anls |-> 0,                   iou |-> 0,
       error_len |-> ExceptionTextLength],
      [kind |-> "log_error",     anls |-> Scale,               iou |-> 4,
       error_len |-> ExceptionTextLength] }

Datasets == UNION { [1..n -> Outcomes] : n \in 0..MaxSamples }

\* [0.0, 0.0, 1.0, 1.0], the bbox of parse_model_response when the response
\* gives none.  Box coordinates are counted in halves of the image side
\* (2 is 1.0).
DefaultBbox == <<0, 0, 2, 2>>

\* handler.py parse_model_response.  A response is described by its text
\* (stripped), by what json.loads makes of the text without its code fences
\* ("invalid": JSONDecodeError; "array": a JSON value that is not an object;
\* "object": a dict, given as parsed), and for a bbox by whether it is a list
\* and what float(v) makes of its items ("numbers": floats; "strings":
\* ValueError; "nulls": TypeError).  The result is the prediction, or raised
\* when the exception is not one of (JSONDecodeError, ValueError).
parse_model_response(response) ==
    LET fallback == [raised |-> FALSE, answer |-> response.text,
                     bbox |-> DefaultBbox, error_len |-> 0]
        \* 'list' object has no attribute 'get'
        attribute_error == [raised |-> TRUE, answer |-> <<>>,
                            bbox |-> DefaultBbox, error_len |-> 36]
        \* float() argument must be a string or a real number, not 'NoneType'
        type_error == [raised |-> TRUE, answer |-> <<>>,
                       bbox |-> DefaultBbox, error_len |-> 66]
    IN  CASE response.json = "invalid" -> fallback
          [] response.json = "array"   -> attribute_error
          [] response.json = "object"  ->
                LET answer == Get(response.parsed, "answer", <<>>)
                    bbox   == Get(response.parsed, "bbox",
                                  [is_list |-> TRUE, items |-> DefaultBbox,
                                   of |-> "numbers"])
                IN  IF bbox.is_list /\ Len(bbox.items) = 4
                    THEN CASE bbox.of = "numbers" ->
                                [raised |-> FALSE, answer |-> answer,
                                 bbox |-> bbox.items, error_len |-> 0]
                           [] bbox.of = "strings" -> fallback
                           [] bbox.of = "nulls"   -> type_error
                    ELSE [raised |-> FALSE, answer |-> answer,
                          bbox |-> DefaultBbox, error_len |-> 0]

\* What happens when a sample of the dataset is evaluated.  A sample is an
\* outcome as above; or ("boxes") a predicted and a ground-truth box, the
\* answer being exact; or ("response") the response text of the model with
\* the ground-truth answers and box of the sample.
OutcomeOf(sample) ==
    CASE sample.kind = "boxes" ->
            [kind |-> "ok", anls |-> Scale,
             iou |-> calculate_iou(sample.pred_bbox, sample.answer_bbox),
             error_len |-> 0]
      [] sample.kind = "response" ->
            LET prediction == parse_model_response(sample.response)
            IN  IF prediction.raised
                THEN [kind |-> "predict_error", anls |-> 0, iou |-> 0,
                      error_len |-> prediction.error_len]
                ELSE [kind |-> "ok",
                      anls |-> calculate_anls(prediction.answer,
                                              sample.answers, DefaultThreshold),
                      iou  |-> calculate_iou(prediction.bbox,
                                             sample.answer_bbox),
                      error_len |-> 0]
      [] OTHER -> sample

VARIABLES
    job,          \* the EvaluationJob item in DynamoDB (attribute -> value)
    queue,        \* visible messages of this job in the evaluation queue
    queue_url,    \* message['evaluationQueueUrl'] ("" when absent)
    dataset,      \* the dataset of the job: the outcome of each sample
    deliveries,   \* deliveries so far; also the clock read by now()
    inv,          \* per execution: the locals of process_evaluation_job
    call,         \* a call of a function of metrics.py: name, arguments, result
    export        \* the dataset export: annotations, progress record, hub, handler

vars == <<job, queue, queue_url, dataset, deliveries, inv, call, export>>

\* No function of metrics.py is called on its own.
NoCall == [fn |-> "none", args |-> <<>>, returned |-> FALSE, ret |-> 0]

\* No dataset export is going on.
NoExport == [pc |-> "none"]

\* ---------------------------------------------------------- pure helpers

\* Mutant of is_approaching_timeout: the answer given without a Lambda
\* context, whatever time remains.
is_approaching_timeout_NoContext(remaining_ms) == FALSE

\* handler.py is_approaching_timeout, with the Lambda context set by handler.
is_approaching_timeout(remaining_ms) == remaining_ms < CHECKPOINT_BUFFER_MS

\* What get_remaining_time_in_millis() can return: one value on each side of
\* the buffer (the boundary value itself is not "approaching").
RemainingValues == {CHECKPOINT_BUFFER_MS - 1, CHECKPOINT_BUFFER_MS}

\* load_checkpoint: the checkpoint attribute of the item converted back from
\* Decimal (the stored decimals have 8 places, each is a value of the model's
\* resolution), or {} when the item holds none.
load_checkpoint(item) ==
    IF "checkpoint" \in DOMAIN item
    THEN [sampleIndex      |-> Get(item.checkpoint, "sampleIndex", 0),
          samplesEvaluated |-> Get(item.checkpoint, "samplesEvaluated", 0),
          samplesFailed    |-> Get(item.checkpoint, "samplesFailed", 0),
          runningAnls      |-> Get(item.checkpoint, "runningAnls", 0),
          runningIou       |-> Get(item.checkpoint, "runningIou", 0),
          part             |-> Get(item.checkpoint, "part", 1)]
    ELSE EmptyDict

\* save_checkpoint: one SET of checkpoint and updatedAt; the running means
\* are stored as Decimal(str(round(x, 8))).
save_checkpoint(item, sample_index, samples_evaluated, samples_failed, running_anls, running_iou, part, now) ==
    UpdateSet(item,
        [checkpoint |-> [sampleIndex      |-> sample_index,
                         samplesEvaluated |-> samples_evaluated,
                         samplesFailed    |-> samples_failed,
                         runningAnls      |-> Round(running_anls, 8),
                         runningIou       |-> Round(running_iou, 8),
                         part             |-> part],
         updatedAt  |-> now])

\* Whether DynamoDB takes the number: the boto3 serializer raises TypeError
\* for the Decimal of nan or of an infinity.
Storable(x) == IsFinite(x)

\* Mutant of StartIndex: the resume index is not read from the checkpoint.
StartIndex_Zero(checkpoint) == 0

\* start_index = checkpoint.get('sampleIndex', 0)
StartIndex(checkpoint) == Get(checkpoint, "sampleIndex", 0)

\* The status write at the start of an invocation: startedAt is set only
\* when the invocation is not a resume.
RunningWrite(item, is_resume, now) ==
    IF is_resume
    THEN UpdateSet(item, [status |-> "RUNNING", updatedAt |-> now])
    ELSE UpdateSet(item, [status |-> "RUNNING", startedAt |-> now,
                          updatedAt |-> now])

\* str(e)[:1000]
Truncated(error) == [error EXCEPT !.len = Min(@, FAILED_ERROR_CHARS)]

\* Mutant of FailedWrite: the write to FAILED also removes the checkpoint.
FailedWrite_RemovesCheckpoint(item, error, now) ==
    UpdateRemove(
        UpdateSet(item, [status |-> "FAILED", updatedAt |-> now,
                         errorMessage |-> Truncated(error)]),
        "checkpoint")

\* The except block: status FAILED, errorMessage, updatedAt; nothing else.
FailedWrite(item, error, now) ==
    UpdateSet(item, [status |-> "FAILED", errorMessage |-> Truncated(error),
                     updatedAt |-> now])

\* The final write: status COMPLETED, the aggregates rounded to 6 places,
\* errorMessage only when samples failed, and REMOVE checkpoint.
CompletedWrite(item, agg, failed_sample_errors, wandb_run_url, now) ==
    LET sets == [status        |-> "COMPLETED",
                 avgAnls       |-> Round(agg.running_anls, 6),
                 avgIou        |-> Round(agg.running_iou, 6),
                 totalSamples  |-> agg.samples_evaluated,
                 failedSamples |-> agg.samples_failed,
                 wandbRunUrl   |-> wandb_run_url,
                 completedAt   |-> now,
                 updatedAt     |-> now]
        error == [errorMessage |->
                    ErrorSummary(agg.samples_failed, failed_sample_errors)]
    IN  UpdateRemove(
            IF agg.samples_failed > 0
            THEN UpdateSet(UpdateSet(item, sets), error)
            ELSE UpdateSet(item, sets),
            "checkpoint")

\* The aggregates restored from the checkpoint (zero without one).
RestoreAggregates(checkpoint) ==
    [running_anls      |-> Get(checkpoint, "runningAnls", 0),
     running_iou       |-> Get(checkpoint, "runningIou", 0),
     samples_evaluated |-> Get(checkpoint, "samplesEvaluated", 0),
     samples_failed    |-> Get(checkpoint, "samplesFailed", 0)]

\* A scored sample: the count, then both incremental running averages.
OnSampleSuccess(agg, anls, iou) ==
    LET n == agg.samples_evaluated + 1
    IN  [agg EXCEPT
            !.samples_evaluated = n,
            !.running_anls = RunningUpdate(@, anls, n),
            !.running_iou  = RunningUpdate(@, iou, n)]

\* Mutant of OnSampleError: the failed sample is also counted as evaluated.
OnSampleError_CountsEvaluated(agg) ==
    [agg EXCEPT !.samples_failed = @ + 1, !.samples_evaluated = @ + 1]

\* The per-sample except block.
OnSampleError(agg) == [agg EXCEPT !.samples_failed = @ + 1]

\* The body of the per-sample try block for one sample.
EvaluateSample(agg, outcome) ==
    CASE outcome.kind = "ok" ->
            OnSampleSuccess(agg, outcome.anls, outcome.iou)
      [] outcome.kind = "predict_error" ->
            OnSampleError(agg)
      [] outcome.kind = "log_error" ->
            OnSampleError(OnSampleSuccess(agg, outcome.anls, outcome.iou))

\* Mutant of AllSamplesFailed: the check is missing.
AllSamplesFailed_Never(samples_evaluated, total_samples) == FALSE

\* samples_evaluated == 0 and total_samples > 0
AllSamplesFailed(samples_evaluated, total_samples) ==
    samples_evaluated = 0 /\ total_samples > 0

\* Mutant of NextPart: a resumed invocation adds two.
NextPart_Double(checkpoint, is_resume) ==
    Get(checkpoint, "part", 1) + (IF is_resume THEN 2 ELSE 1)

\* part=checkpoint.get('part', 1) + (1 if is_resume else 1)
NextPart(checkpoint, is_resume) ==
    Get(checkpoint, "part", 1) + (IF is_resume THEN 1 ELSE 1)

\* ------------------------------------------------------------------ state

IdleLocals ==
    [pc                |-> "idle",
     checkpoint        |-> EmptyDict,
     start_index       |-> 0,
     is_resume         |-> FALSE,
     i                 |-> 0,
     total_samples     |-> 0,
     agg               |-> RestoreAggregates(EmptyDict),
     failed_sample_errors |-> <<>>,
     results_data      |-> FALSE,   \* whether results_data is non-empty
     wandb_run         |-> FALSE,   \* whether wandb_run is set
     checkpointed      |-> FALSE,
     remaining_ms      |-> CHECKPOINT_BUFFER_MS,
     result            |-> "none",  \* how the invocation ended
     record            |-> 0,       \* messageId: the record's place in the event
     records           |-> 0,       \* records of the event still to come
     batch_item_failures |-> <<>>,
     eval_table_name   |-> "",      \* evaluationJobTableName of the message
     job_table         |-> "",      \* name of the table behind job_table
     table_cache       |-> EmptyDict]  \* _table_cache of the process

\* The state of process p between invocations: the locals are gone, the
\* module-level _table_cache stays.
Idle(p) == [IdleLocals EXCEPT !.table_cache = inv[p].table_cache]

Init ==
    /\ job = [id |-> "job", status |-> "PENDING"]
    /\ queue = 1
    /\ queue_url \in {"", "https://sqs"}
    /\ dataset \in Datasets
    /\ deliveries = 0
    /\ inv = [p \in Procs |-> IdleLocals]
    /\ call = NoCall
    /\ export = NoExport

\* ---------------------------------------------------------------- actions

\* The name in the message of every invocation for the job.
TableName == "EvaluationJob-a"

\* get_table: the table cached under the prefix, or, when none is cached,
\* the table named by _table_name_overrides, which is cached (a table
\* handle is modelled by the name it was made with).  The ValueError for a
\* missing name cannot occur: process_evaluation_job raises for it before
\* the call (StartFail).
get_table(table_cache, table_name_overrides, prefix) ==
    IF prefix \notin DOMAIN table_cache
    THEN [table_cache |-> UpdateSet(table_cache,
                            [k \in {prefix} |-> table_name_overrides[prefix]]),
          table       |-> table_name_overrides[prefix]]
    ELSE [table_cache |-> table_cache, table |-> table_cache[prefix]]

\* process_evaluation_job lines 146-150: the table name of the message is
\* put into _table_name_overrides and the table is got.
JobTable(p, eval_table_name) ==
    get_table(inv[p].table_cache,
              [k \in {"EvaluationJob"} |-> eval_table_name], "EvaluationJob")

\* process_evaluation_job up to the try block, called by handler for the
\* record numbered `record` of an event with `records` more to come: get
\* the table, load the checkpoint, write status RUNNING.
EnterJob(p, record, records, batch_item_failures) ==
    \E remaining \in RemainingValues :
        LET now         == deliveries'
            got         == JobTable(p, TableName)
            checkpoint  == load_checkpoint(job)
            start_index == StartIndex(checkpoint)
            is_resume   == start_index > 0
        IN  /\ job' = RunningWrite(job, is_resume, now)
            /\ inv' = [inv EXCEPT ![p] =
                        [Idle(p) EXCEPT
                            !.pc = "setup",
                            !.checkpoint = checkpoint,
                            !.start_index = start_index,
                            !.is_resume = is_resume,
                            !.remaining_ms = remaining,
                            !.eval_table_name = TableName,
                            !.job_table = got.table,
                            !.table_cache = got.table_cache,
                            !.record = record,
                            !.records = records,
                            !.batch_item_failures = batch_item_failures]]

\* handler's except block and the end of its loop body for one record: a
\* record whose processing raised is appended to batch_item_failures; after
\* the last record handler returns the list and SQS makes the reported
\* messages visible again and deletes the others.
EndRecord(p, record, records, batch_item_failures, result) ==
    LET failures == IF result = "raised"
                    THEN Append(batch_item_failures, record)
                    ELSE batch_item_failures
    IN  IF records > 0
        THEN /\ inv' = [inv EXCEPT ![p] =
                        [Idle(p) EXCEPT
                            !.pc = "record",
                            !.result = result,
                            !.record = record,
                            !.records = records,
                            !.batch_item_failures = failures]]
             /\ queue' = queue
        ELSE /\ inv' = [inv EXCEPT ![p] =
                        [Idle(p) EXCEPT
                            !.result = result,
                            !.batch_item_failures = failures]]
             /\ queue' = queue + Len(failures)

\* handler receives the job message as an event of one record;
\* process_evaluation_job up to the try block.
Start(p) ==
    /\ inv[p].pc = "idle"
    /\ queue > 0
    /\ deliveries < MaxDeliveries
    /\ deliveries' = deliveries + 1
    /\ EnterJob(p, 1, 0, <<>>)
    /\ queue' = queue - 1
    /\ UNCHANGED <<queue_url, dataset, call, export>>

\* process_evaluation_job raises before its try block is entered: the
\* message holds no evaluationJobTableName (ValueError, before get_table),
\* or get_item in load_checkpoint or the RUNNING update_item raises (after
\* get_table).  Nothing is written to the record; handler reports the
\* message as failed and SQS makes it visible again.
StartFail(p) ==
    /\ inv[p].pc = "idle"
    /\ queue > 0
    /\ deliveries < MaxDeliveries
    /\ deliveries' = deliveries + 1
    /\ \E table_cache \in {inv[p].table_cache,
                            JobTable(p, TableName).table_cache} :
        inv' = [inv EXCEPT ![p] =
                [Idle(p) EXCEPT !.result = "raised",
                                !.batch_item_failures = <<1>>,
                                !.table_cache = table_cache]]
    /\ UNCHANGED <<job, queue, queue_url, dataset, call, export>>

\* handler receives an event of several records of the job (the message, a
\* duplicate of it, a continuation) and starts its loop over them.
StartBatch(p) ==
    /\ inv[p].pc = "idle"
    /\ \E n \in 1..MaxBatch :
        /\ queue >= n
        /\ deliveries + n <= MaxDeliveries
        /\ queue' = queue - n
        /\ inv' = [inv EXCEPT ![p] =
                    [Idle(p) EXCEPT !.pc = "record", !.records = n]]
    /\ UNCHANGED <<job, queue_url, dataset, deliveries, call, export>>

\* handler's loop takes the next record of the event: json.loads and
\* process_evaluation_job up to the try block.
NextRecord(p) ==
    /\ inv[p].pc = "record"
    /\ deliveries' = deliveries + 1
    /\ EnterJob(p, inv[p].record + 1, inv[p].records - 1,
                inv[p].batch_item_failures)
    /\ UNCHANGED <<queue, queue_url, dataset, call, export>>

\* The next record of the event raises before the try block of
\* process_evaluation_job is entered (json.loads of its body included).
NextRecordFail(p) ==
    /\ inv[p].pc = "record"
    /\ deliveries' = deliveries + 1
    /\ EndRecord(p, inv[p].record + 1, inv[p].records - 1,
                 inv[p].batch_item_failures, "raised")
    /\ UNCHANGED <<job, queue_url, dataset, call, export>>

\* W&B init, dataset download and load, aggregates restored; time passes.
Setup(p) ==
    /\ inv[p].pc = "setup"
    /\ \E remaining \in {r \in RemainingValues : r <= inv[p].remaining_ms} :
        inv' = [inv EXCEPT ![p] =
                [@ EXCEPT !.pc = "loop",
                          !.wandb_run = TRUE,
                          !.total_samples = Len(dataset),
                          !.agg = RestoreAggregates(inv[p].checkpoint),
                          !.i = inv[p].start_index,
                          !.remaining_ms = remaining]]
    /\ UNCHANGED <<job, queue, queue_url, dataset, deliveries, call, export>>

\* get_secret, wandb.login, wandb.init, snapshot_download or
\* load_imagefolder_dataset raises: the except block writes FAILED, re-raise
\* (the invocation has raised already, whatever wandb.finish() then does).
SetupFail(p) ==
    /\ inv[p].pc = "setup"
    /\ job' = FailedWrite(job, LibraryError, deliveries)
    /\ inv' = [inv EXCEPT ![p] =
                [@ EXCEPT !.pc = "finally", !.result = "raised"]]
    /\ UNCHANGED <<queue, queue_url, dataset, deliveries, call, export>>

\* Top of the loop, approaching the timeout: save the checkpoint (when a
\* running mean is not storable, update_item raises and the except block
\* writes FAILED).
SaveCheckpoint(p) ==
    /\ inv[p].pc = "loop"
    /\ inv[p].i < inv[p].total_samples
    /\ is_approaching_timeout(inv[p].remaining_ms)
    /\ IF Storable(inv[p].agg.running_anls) /\ Storable(inv[p].agg.running_iou)
       THEN /\ job' = save_checkpoint(job, inv[p].i,
                              inv[p].agg.samples_evaluated,
                              inv[p].agg.samples_failed,
                              inv[p].agg.running_anls,
                              inv[p].agg.running_iou,
                              NextPart(inv[p].checkpoint, inv[p].is_resume),
                              deliveries)
            /\ inv' = [inv EXCEPT ![p].pc = "reenqueue"]
       ELSE /\ job' = FailedWrite(job, LibraryError, deliveries)
            /\ inv' = [inv EXCEPT ![p] =
                        [@ EXCEPT !.pc = "finally", !.result = "raised"]]
    /\ UNCHANGED <<queue, queue_url, dataset, deliveries, call, export>>

\* reenqueue_job: send the same message when a queue URL was given, else
\* only warn; then checkpointed = True and the early return.
Reenqueue(p) ==
    /\ inv[p].pc = "reenqueue"
    /\ queue' = IF queue_url # "" THEN queue + 1 ELSE queue
    /\ inv' = [inv EXCEPT ![p] =
                [@ EXCEPT !.pc = "finally",
                          !.checkpointed = TRUE,
                          !.result = "returned"]]
    /\ UNCHANGED <<job, queue_url, dataset, deliveries, call, export>>

\* sqs_client.send_message raises: the except block writes FAILED, re-raise.
ReenqueueFail(p) ==
    /\ inv[p].pc = "reenqueue"
    /\ queue_url # ""
    /\ job' = FailedWrite(job, LibraryError, deliveries)
    /\ inv' = [inv EXCEPT ![p] =
                [@ EXCEPT !.pc = "finally", !.result = "raised"]]
    /\ UNCHANGED <<queue, queue_url, dataset, deliveries, call, export>>

\* Top of the loop, enough time left: one pass of the per-sample try block
\* for dataset[i]; time passes.
ProcessSample(p) ==
    /\ inv[p].pc = "loop"
    /\ inv[p].i < inv[p].total_samples
    /\ ~is_approaching_timeout(inv[p].remaining_ms)
    /\ \E remaining \in {r \in RemainingValues : r <= inv[p].remaining_ms} :
        LET outcome == OutcomeOf(dataset[inv[p].i + 1])
        IN  inv' = [inv EXCEPT ![p] =
                     [@ EXCEPT !.agg = EvaluateSample(inv[p].agg, outcome),
                               !.failed_sample_errors =
                                   IF outcome.kind = "ok" THEN @
                                   ELSE RetainError(@,
                                           SampleError(inv[p].i,
                                                       outcome.error_len)),
                               !.results_data = @ \/ outcome.kind = "ok",
                               !.i = @ + 1,
                               !.remaining_ms = remaining]]
    /\ UNCHANGED <<job, queue, queue_url, dataset, deliveries, call, export>>

\* After the loop: the W&B results table or summary raises; FAILED, re-raise.
FinalTelemetryFail(p) ==
    /\ inv[p].pc = "loop"
    /\ inv[p].i >= inv[p].total_samples
    /\ inv[p].wandb_run /\ inv[p].results_data
    /\ job' = FailedWrite(job, LibraryError, deliveries)
    /\ inv' = [inv EXCEPT ![p] =
                [@ EXCEPT !.pc = "finally", !.result = "raised"]]
    /\ UNCHANGED <<queue, queue_url, dataset, deliveries, call, export>>

\* After the loop, no sample evaluated: RuntimeError, FAILED, re-raise.
AllFailed(p) ==
    /\ inv[p].pc = "loop"
    /\ inv[p].i >= inv[p].total_samples
    /\ AllSamplesFailed(inv[p].agg.samples_evaluated, inv[p].total_samples)
    /\ job' = FailedWrite(job,
                  AllFailedError(inv[p].total_samples,
                                 inv[p].failed_sample_errors),
                  deliveries)
    /\ inv' = [inv EXCEPT ![p] =
                [@ EXCEPT !.pc = "finally", !.result = "raised"]]
    /\ UNCHANGED <<queue, queue_url, dataset, deliveries, call, export>>

\* After the loop: the COMPLETED write (FAILED instead when a running mean
\* is not storable and update_item raises).
Complete(p) ==
    /\ inv[p].pc = "loop"
    /\ inv[p].i >= inv[p].total_samples
    /\ ~AllSamplesFailed(inv[p].agg.samples_evaluated, inv[p].total_samples)
    /\ IF Storable(inv[p].agg.running_anls) /\ Storable(inv[p].agg.running_iou)
       THEN /\ job' = CompletedWrite(job, inv[p].agg,
                          inv[p].failed_sample_errors,
                          IF inv[p].wandb_run /\ inv[p].results_data
                          THEN "https://wandb" ELSE "",
                          deliveries)
            /\ inv' = [inv EXCEPT ![p] =
                        [@ EXCEPT !.pc = "finally", !.result = "returned"]]
       ELSE /\ job' = FailedWrite(job, LibraryError, deliveries)
            /\ inv' = [inv EXCEPT ![p] =
                        [@ EXCEPT !.pc = "finally", !.result = "raised"]]
    /\ UNCHANGED <<queue_url, dataset, deliveries, call, export>>
    /\ UNCHANGED queue

\* finally: wandb.finish() returns; back in handler, a raised invocation is
\* reported in batchItemFailures and SQS makes its message visible again, a
\* returned one has its message deleted.
Return(p) ==
    /\ inv[p].pc = "finally"
    /\ EndRecord(p, inv[p].record, inv[p].records,
                 inv[p].batch_item_failures, inv[p].result)
    /\ UNCHANGED <<job, queue_url, dataset, deliveries, call, export>>

\* finally: wandb.finish() raises, so the invocation raises whatever it did
\* before; handler reports the message as failed.
FinishFail(p) ==
    /\ inv[p].pc = "finally"
    /\ inv[p].wandb_run
    /\ EndRecord(p, inv[p].record, inv[p].records,
                 inv[p].batch_item_failures, "raised")
    /\ UNCHANGED <<job, queue_url, dataset, deliveries, call, export>>

Step(p) ==
    \/ Setup(p)
    \/ SetupFail(p)
    \/ SaveCheckpoint(p)
    \/ Reenqueue(p)
    \/ ReenqueueFail(p)
    \/ ProcessSample(p)
    \/ FinalTelemetryFail(p)
    \/ AllFailed(p)
    \/ Complete(p)
    \/ Return(p)
    \/ FinishFail(p)

\* Serial delivery: a message is delivered only when no invocation of the
\* job is in progress.
Deliver ==
    /\ \A q \in Procs : inv[q].pc = "idle"
    /\ Start(1)

\* Serial delivery of a message whose invocation raises before the try block.
DeliverFail ==
    /\ \A q \in Procs : inv[q].pc = "idle"
    /\ StartFail(1)

Next == Deliver \/ DeliverFail \/ \E p \in Procs : Step(p)

Spec == Init /\ [][Next]_vars

\* ---------------------------------------------------------------- claims

Terminal == {"COMPLETED", "FAILED"}

HasCheckpoint(item) == "checkpoint" \in DOMAIN item

\* The aggregates of the dataset evaluated from sample k on in one pass,
\* with no checkpoint in between.
RECURSIVE RunFrom(_, _)
RunFrom(agg, k) ==
    IF k > Len(dataset) THEN agg
    ELSE RunFrom(EvaluateSample(agg, dataset[k]), k + 1)

UninterruptedRun == RunFrom(RestoreAggregates(EmptyDict), 1)

\* C1. Resumption transparency: whatever suspensions and resumes led to it,
\* a COMPLETED record holds the avgAnls, avgIou, totalSamples and
\* failedSamples of the uninterrupted run of the same dataset.
C1_ResumptionTransparency ==
    job.status = "COMPLETED" =>
        /\ job.avgAnls = Round(UninterruptedRun.running_anls, 6)
        /\ job.avgIou = Round(UninterruptedRun.running_iou, 6)
        /\ job.totalSamples = UninterruptedRun.samples_evaluated
        /\ job.failedSamples = UninterruptedRun.samples_failed

\* C2. Idempotent redelivery: an invocation that starts on a job whose
\* status is COMPLETED or FAILED writes nothing to the record and goes
\* straight to its return (no sample, no continuation).
C2_IdempotentRedelivery ==
    [][\A p \in Procs :
        (inv[p].pc = "idle" /\ inv'[p].pc # "idle" /\ job.status \in Terminal)
            => (job' = job /\ inv'[p].pc = "finally")]_vars

\* C3. Terminal statuses are absorbing: once the status is COMPLETED or
\* FAILED no step changes any attribute of the job record.
C3_TerminalAbsorbing ==
    [][job.status \in Terminal => job' = job]_vars

\* C4. Every persisted checkpoint has
\* samplesEvaluated + samplesFailed <= sampleIndex.
C4_CheckpointCounts ==
    HasCheckpoint(job) =>
        job.checkpoint.samplesEvaluated + job.checkpoint.samplesFailed
            <= job.checkpoint.sampleIndex

C6_SoftSuspension ==
    [][\A p \in Procs :
        /\ (inv[p].pc = "loop" /\ inv[p].i < inv[p].total_samples
                /\ inv[p].remaining_ms < CHECKPOINT_BUFFER_MS
                /\ inv'[p] # inv[p])
            => /\ HasCheckpoint(job')
               /\ job'.checkpoint.sampleIndex = inv[p].i
               /\ job'.checkpoint.samplesEvaluated = inv[p].agg.samples_evaluated
               /\ job'.checkpoint.samplesFailed = inv[p].agg.samples_failed
               /\ job'.checkpoint.runningAnls = Round(inv[p].agg.running_anls, 8)
               /\ job'.checkpoint.runningIou = Round(inv[p].agg.running_iou, 8)
               /\ job'.status = "RUNNING"
        /\ (inv[p].checkpointed /\ inv'[p].pc = "idle")
            => /\ inv'[p].result = "returned"
               /\ job'.status = "RUNNING"]_vars

\* C7. Every suspension emits a continuation: the invocation that
\* checkpointed has sent exactly one message, whatever the input message.
C7_ContinuationEmitted ==
    [][\A p \in Procs :
        (inv[p].pc = "reenqueue" /\ inv'[p].checkpointed)
            => queue' = queue + 1]_vars

\* C8. A predictor (or image open) failure on sample i adds one to
\* samples_failed, leaves samples_evaluated and both running means as they
\* were, writes nothing to the job record and moves the loop to i + 1.
C8_SampleFailureLocal ==
    [][\A p \in Procs :
        (/\ inv[p].pc = "loop"
         /\ inv'[p].i = inv[p].i + 1
         /\ dataset[inv[p].i + 1].kind = "predict_error")
            => /\ inv'[p].agg.samples_failed = inv[p].agg.samples_failed + 1
               /\ inv'[p].agg.samples_evaluated = inv[p].agg.samples_evaluated
               /\ inv'[p].agg.running_anls = inv[p].agg.running_anls
               /\ inv'[p].agg.running_iou = inv[p].agg.running_iou
               /\ inv'[p].pc = "loop"
               /\ job' = job]_vars

\* C8 witness (Scenario B): the predictor threw on sample 2 of 3 and the job
\* is COMPLETED with 2 evaluated and 1 failed.
C8_Witness ==
    /\ Len(dataset) = 3
    /\ dataset[1].kind = "ok"
    /\ dataset[2].kind = "predict_error"
    /\ dataset[3].kind = "ok"
    /\ job.status = "COMPLETED"
    /\ job.totalSamples = 2
    /\ job.failedSamples = 1

\* C9. At the end of a non-empty dataset with samples_evaluated = 0 the
\* invocation raises and the record is FAILED with the "all samples failed"
\* message; and no COMPLETED record of a non-empty dataset has 0 evaluated.
C9_AllFailedIsFailed ==
    /\ [][\A p \in Procs :
            (/\ inv[p].pc = "loop"
             /\ inv[p].i >= inv[p].total_samples
             /\ inv[p].total_samples > 0
             /\ inv[p].agg.samples_evaluated = 0
             /\ inv'[p] # inv[p])
                => /\ job'.status = "FAILED"
                   /\ job'.errorMessage.text = "All samples failed to evaluate"
                   /\ inv'[p].result = "raised"]_vars
    /\ [](job.status = "COMPLETED" =>
            (job.totalSamples > 0 \/ Len(dataset) = 0))

\* C9 witness (Scenario C): the predictor threw on all 3 samples and the
\* record is FAILED with the summary error.
C9_Witness ==
    /\ Len(dataset) = 3
    /\ \A k \in 1..3 : dataset[k].kind = "predict_error"
    /\ job.status = "FAILED"
    /\ job.errorMessage.text = "All samples failed to evaluate"
    /\ \A p \in Procs : inv[p].pc = "idle"

\* C10. At the end of the dataset, with at least one sample evaluated or an
\* empty dataset, the record is written COMPLETED with the final aggregates
\* and without a checkpoint; no COMPLETED record holds a checkpoint.
C10_CompletedWrite ==
    /\ [][\A p \in Procs :
            (/\ inv[p].pc = "loop"
             /\ inv[p].i >= inv[p].total_samples
             /\ (inv[p].agg.samples_evaluated >= 1 \/ inv[p].total_samples = 0)
             /\ inv'[p] # inv[p])
                => /\ job'.status = "COMPLETED"
                   /\ job'.avgAnls = Round(inv[p].agg.running_anls, 6)
                   /\ job'.avgIou = Round(inv[p].agg.running_iou, 6)
                   /\ job'.totalSamples = inv[p].agg.samples_evaluated
                   /\ job'.failedSamples = inv[p].agg.samples_failed
                   /\ ~HasCheckpoint(job')]_vars
    /\ [](job.status = "COMPLETED" => ~HasCheckpoint(job))

\* C11. Every invocation that raises outside the per-sample try block has
\* left the record FAILED: the step on which an invocation turns to raised
\* (or is delivered and raises at once) ends with status FAILED.
C11_RaisedIsFailed ==
    [][\A p \in Procs :
        (/\ inv'[p].result = "raised"
         /\ \/ inv[p].result # "raised"
            \/ (inv[p].pc = "idle" /\ deliveries' # deliveries))
            => job'.status = "FAILED"]_vars

\* The outcome of the same sample in a run whose telemetry never raises.
TelemetryOk(outcome) ==
    IF outcome.kind = "log_error" THEN [outcome EXCEPT !.kind = "ok"]
    ELSE outcome

\* C12. Telemetry isolation, step by step: from the same state, a step in
\* which a W&B call may raise leaves the aggregates that the same step
\* leaves when W&B succeeds, and the step after the last sample persists the
\* status that the predictor outcomes alone determine (FAILED when no sample
\* of a non-empty dataset was evaluated, COMPLETED otherwise).
C12_TelemetryIsolation ==
    [][\A p \in Procs :
        /\ (inv[p].pc = "loop" /\ inv'[p].i = inv[p].i + 1)
            => inv'[p].agg = EvaluateSample(inv[p].agg,
                                 TelemetryOk(dataset[inv[p].i + 1]))
        /\ (/\ inv[p].pc = "loop"
            /\ inv[p].i >= inv[p].total_samples
            /\ inv'[p] # inv[p])
            => job'.status =
                 IF AllSamplesFailed(inv[p].agg.samples_evaluated,
                                     inv[p].total_samples)
                 THEN "FAILED" ELSE "COMPLETED"]_vars

\* ------------------------------------------------- concurrent invocations

\* SQS delivers at least once: while an invocation of the job is still
\* running (its message in flight), the message becomes visible a second
\* time.
Redeliver ==
    /\ queue = 0
    /\ \E p \in Procs : inv[p].pc # "idle"
    /\ queue' = queue + 1
    /\ UNCHANGED <<job, queue_url, dataset, deliveries, inv, call, export>>

\* Any idle execution environment takes a visible message, whatever the
\* other one is doing.
NextConcurrent ==
    \/ \E p \in Procs : Start(p)
    \/ \E p \in Procs : StartFail(p)
    \/ \E p \in Procs : Step(p)
    \/ Redeliver

\* One scored and one failed outcome.
ConcurrentOutcomes ==
    {o \in Outcomes : o.kind = "predict_error" \/ (o.kind = "ok" /\ o.anls = Scale)}

\* The jobs of the concurrent specification: a queue URL in the message, a
\* dataset of at most MaxConcurrentSamples samples, each scored or failed by
\* the predictor.
InitConcurrent ==
    /\ job = [id |-> "job", status |-> "PENDING"]
    /\ queue = 1
    /\ queue_url = "https://sqs"
    /\ dataset \in UNION { [1..n -> ConcurrentOutcomes] :
                            n \in 1..MaxConcurrentSamples }
    /\ deliveries = 0
    /\ inv = [p \in Procs |-> IdleLocals]
    /\ call = NoCall
    /\ export = NoExport

SpecConcurrent == InitConcurrent /\ [][NextConcurrent]_vars

\* C13. With two invocations writing the same record, no save_checkpoint
\* step replaces a persisted checkpoint by one with a smaller sampleIndex.
C13_NoLostSampleIndex ==
    [][\A p \in Procs :
        (/\ inv[p].pc = "loop"
         /\ inv'[p].pc = "reenqueue"
         /\ HasCheckpoint(job))
            => job'.checkpoint.sampleIndex >= job.checkpoint.sampleIndex]_vars

\* C14. Checkpoint round trip: the checkpoint loaded from the record right
\* after a save_checkpoint step equals, in all six fields, the values the
\* step was called with; and a record without a checkpoint loads as the
\* zeroed state (resume index 0, counts 0, running means 0).
C14_CheckpointRoundTrip ==
    /\ [][\A p \in Procs :
            (inv[p].pc = "loop" /\ inv'[p].pc = "reenqueue")
                => load_checkpoint(job') =
                     [sampleIndex      |-> inv[p].i,
                      samplesEvaluated |-> inv[p].agg.samples_evaluated,
                      samplesFailed    |-> inv[p].agg.samples_failed,
                      runningAnls      |-> inv[p].agg.running_anls,
                      runningIou       |-> inv[p].agg.running_iou,
                      part             |-> NextPart(inv[p].checkpoint,
                                                    inv[p].is_resume)]]_vars
    /\ [](~HasCheckpoint(job) =>
            /\ StartIndex(load_checkpoint(job)) = 0
            /\ RestoreAggregates(load_checkpoint(job)) =
                 [running_anls |-> 0, running_iou |-> 0,
                  samples_evaluated |-> 0, samples_failed |-> 0])

\* The samples among the first i whose scores entered the running means.
Scored(i) == {k \in 1..i : dataset[k].kind \in {"ok", "log_error"}}

\* Sum over the scored samples among the first i of (score - mean), for the
\* anls scores (resp. the iou scores): 0 when mean is their arithmetic mean.
RECURSIVE SumAnlsDeviation(_, _)
SumAnlsDeviation(i, mean) ==
    IF i = 0 THEN 0
    ELSE SumAnlsDeviation(i - 1, mean)
            + (IF i \in Scored(i) THEN dataset[i].anls - mean ELSE 0)

RECURSIVE SumIouDeviation(_, _)
SumIouDeviation(i, mean) ==
    IF i = 0 THEN 0
    ELSE SumIouDeviation(i - 1, mean)
            + (IF i \in Scored(i) THEN dataset[i].iou - mean ELSE 0)

Abs(x) == IF x < 0 THEN -x ELSE x

\* C15. In the loop, after every scored sample, running_anls and running_iou
\* are the arithmetic means of the scores of all samples scored so far in
\* the job (those of earlier invocations included), up to the rounding of
\* the n divisions that computed them (half a unit each: n(n+1)/4 units on
\* the sum of deviations).
C15_RunningMeanIsMean ==
    \A p \in Procs :
        (inv[p].pc = "loop" /\ Scored(inv[p].i) # {}) =>
            LET n == Cardinality(Scored(inv[p].i))
            IN  /\ 4 * Abs(SumAnlsDeviation(inv[p].i, inv[p].agg.running_anls))
                    <= n * (n + 1)
                /\ 4 * Abs(SumIouDeviation(inv[p].i, inv[p].agg.running_iou))
                    <= n * (n + 1)

\* ------------------------------------------------- samples given by boxes

\* The ground-truth box of every sample: the full image.
FullImage == <<0, 0, 2, 2>>

\* Predicted boxes: exact, left half, inverted, out of range, and out of
\* range by the largest finite float with zero height.
PredBoxes ==
    { <<0, 0, 2, 2>>,
      <<0, 0, 1, 2>>,
      <<2, 2, 0, 0>>,
      <<-1, -1, 3, 3>>,
      <<-FloatMax, 0, FloatMax, 0>> }

\* A sample answered with the exact text and one of the predicted boxes, or
\* failed by the predictor.
BoxSamples ==
    { [kind |-> "boxes", pred_bbox |-> b, answer_bbox |-> FullImage] :
        b \in PredBoxes }
    \cup {o \in Outcomes : o.kind = "predict_error"}

InitBoxes ==
    /\ job = [id |-> "job", status |-> "PENDING"]
    /\ queue = 1
    /\ queue_url \in {"", "https://sqs"}
    /\ dataset \in UNION { [1..n -> BoxSamples] : n \in 0..MaxBoxSamples }
    /\ deliveries = 0
    /\ inv = [p \in Procs |-> IdleLocals]
    /\ call = NoCall
    /\ export = NoExport

SpecBoxes == InitBoxes /\ [][Next]_vars

InUnitInterval(x) == x \in 0..Scale

\* C16. In every state the running means of every invocation, the running
\* means of a persisted checkpoint and the persisted avgAnls and avgIou lie
\* in [0, 1], whatever boxes the predictor returned.
C16_MeansInUnitInterval ==
    /\ \A p \in Procs :
        /\ InUnitInterval(inv[p].agg.running_anls)
        /\ InUnitInterval(inv[p].agg.running_iou)
    /\ HasCheckpoint(job) =>
        /\ InUnitInterval(job.checkpoint.runningAnls)
        /\ InUnitInterval(job.checkpoint.runningIou)
    /\ job.status = "COMPLETED" =>
        /\ InUnitInterval(job.avgAnls)
        /\ InUnitInterval(job.avgIou)

\* C17. The budget is checked before each predictor call: a sample is
\* evaluated only by an invocation whose remaining time, read at the top of
\* the loop for that index, is not below the buffer; an invocation that
\* reads a remaining time below the buffer at index i leaves the loop
\* without evaluating sample i, and evaluates no sample afterwards.
C17_BudgetCheckedBeforeCall ==
    [][\A p \in Procs :
        /\ (inv[p].pc = "loop" /\ inv'[p].i = inv[p].i + 1)
            => inv[p].remaining_ms >= CHECKPOINT_BUFFER_MS
        /\ (/\ inv[p].pc = "loop"
            /\ inv[p].i < inv[p].total_samples
            /\ inv[p].remaining_ms < CHECKPOINT_BUFFER_MS
            /\ inv'[p] # inv[p])
            => /\ inv'[p].i = inv[p].i
               /\ inv'[p].agg = inv[p].agg
               /\ inv'[p].pc \in {"reenqueue", "finally"}
        /\ (inv[p].pc \in {"reenqueue", "finally"} /\ inv'[p].pc # "idle")
            => /\ inv'[p].i = inv[p].i
               /\ inv'[p].agg = inv[p].agg]_vars

\* C17 witness: an invocation evaluated sample 0 with enough time, then read
\* a remaining time below the buffer at index 1 and left the loop there.
C17_Witness ==
    \E p \in Procs :
        /\ inv[p].pc = "reenqueue"
        /\ inv[p].start_index = 0
        /\ inv[p].i = 1
        /\ inv[p].agg.samples_evaluated = 1
        /\ inv[p].remaining_ms < CHECKPOINT_BUFFER_MS

\* ---------------------------------------------- samples given by responses

\* Response texts of the model for a sample whose answer is "a" and whose
\* box is the full image: the JSON object asked for; the bare answer as
\* plain text; another plain text; a JSON array; a JSON object without
\* answer and bbox; a JSON object whose bbox holds strings; a JSON object
\* whose bbox holds nulls.
Responses ==
    { [json |-> "object", text |-> <<"{", "a", "}">>,
       parsed |-> [answer |-> <<"a">>,
                   bbox |-> [is_list |-> TRUE, items |-> <<0, 0, 2, 2>>,
                             of |-> "numbers"]]],
      [json |-> "invalid", text |-> <<"a">>, parsed |-> EmptyDict],
      [json |-> "invalid", text |-> <<"b", "b">>, parsed |-> EmptyDict],
      [json |-> "array", text |-> <<"[", "a", "]">>, parsed |-> EmptyDict],
      [json |-> "object", text |-> <<"{", "}">>, parsed |-> EmptyDict],
      [json |-> "object", text |-> <<"{", "a", "b", "}">>,
       parsed |-> [answer |-> <<"a">>,
                   bbox |-> [is_list |-> TRUE, items |-> <<0, 0, 2, 2>>,
                             of |-> "strings"]]],
      [json |-> "object", text |-> <<"{", "a", "}">>,
       parsed |-> [answer |-> <<"a">>,
                   bbox |-> [is_list |-> TRUE, items |-> <<0, 0, 2, 2>>,
                             of |-> "nulls"]]] }

ResponseSamples ==
    { [kind |-> "response", response |-> r, answers |-> << <<"a">> >>,
       answer_bbox |-> FullImage] : r \in Responses }

InitResponses ==
    /\ job = [id |-> "job", status |-> "PENDING"]
    /\ queue = 1
    /\ queue_url \in {"", "https://sqs"}
    /\ dataset \in UNION { [1..n -> ResponseSamples] :
                            n \in 0..MaxResponseSamples }
    /\ deliveries = 0
    /\ inv = [p \in Procs |-> IdleLocals]
    /\ call = NoCall
    /\ export = NoExport

SpecResponses == InitResponses /\ [][Next]_vars

\* A response text that is not a JSON object with an answer and a bbox of
\* four numbers.
Malformed(response) ==
    ~ /\ response.json = "object"
      /\ {"answer", "bbox"} \subseteq DOMAIN response.parsed
      /\ response.parsed.bbox.is_list
      /\ Len(response.parsed.bbox.items) = 4
      /\ response.parsed.bbox.of = "numbers"

\* C18. A malformed response for sample i is a per-sample failure: the step
\* that evaluates the sample adds one to samples_failed and leaves
\* samples_evaluated and both running means as they were.
C18_MalformedIsFailure ==
    [][\A p \in Procs :
        (/\ inv[p].pc = "loop"
         /\ inv'[p].i = inv[p].i + 1
         /\ Malformed(dataset[inv[p].i + 1].response))
            => /\ inv'[p].agg.samples_failed = inv[p].agg.samples_failed + 1
               /\ inv'[p].agg.samples_evaluated = inv[p].agg.samples_evaluated
               /\ inv'[p].agg.running_anls = inv[p].agg.running_anls
               /\ inv'[p].agg.running_iou = inv[p].agg.running_iou]_vars

\* ------------------------------------------- samples that fail with messages

\* Lengths of the exception message of a failing sample, on both sides of
\* the truncation.
SampleErrorLengths == {SAMPLE_ERROR_CHARS - 1, SAMPLE_ERROR_CHARS + 1}

\* Datasets of n samples on which the predictor raises, with messages of
\* the same length, followed or not by one sample that is scored.
ErrorDatasets ==
    { [k \in 1..n |-> [kind |-> "predict_error", anls |-> 0, iou |-> 0,
                       error_len |-> e_len]] \o tail :
        n \in 0..(MaxErrorSamples - 1),
        e_len \in SampleErrorLengths,
        tail \in { <<>>,
                   <<[kind |-> "ok", anls |-> Scale, iou |-> 4,
                      error_len |-> 0]>> } }

InitErrors ==
    /\ job = [id |-> "job", status |-> "PENDING"]
    /\ queue = 1
    /\ queue_url = "https://sqs"
    /\ dataset \in ErrorDatasets
    /\ deliveries = 0
    /\ inv = [p \in Procs |-> IdleLocals]
    /\ call = NoCall
    /\ export = NoExport

SpecErrors == InitErrors /\ [][Next]_vars

\* C19. Every persisted error text is bounded: the errorMessage written
\* with FAILED has at most 1000 characters; the errorMessage written with
\* COMPLETED is built from at most 3 diagnostic entries, each with at most
\* 100 characters of exception text; and the diagnostic list of an
\* invocation never holds more than 10 entries.
C19_ErrorTextBounded ==
    /\ \A p \in Procs :
        /\ Len(inv[p].failed_sample_errors) <= MAX_SAMPLE_ERRORS
        /\ \A k \in 1..Len(inv[p].failed_sample_errors) :
            inv[p].failed_sample_errors[k].chars <= SAMPLE_ERROR_CHARS
    /\ "errorMessage" \in DOMAIN job =>
        /\ job.errorMessage.text # "samples failed"
            => job.errorMessage.len <= FAILED_ERROR_CHARS
        /\ job.errorMessage.text = "samples failed"
            => /\ Len(job.errorMessage.entries) <= SUMMARY_ERRORS
               /\ \A k \in 1..Len(job.errorMessage.entries) :
                    job.errorMessage.entries[k].chars <= SAMPLE_ERROR_CHARS
               /\ job.errorMessage.len
                    <= Digits(job.failedSamples) + 17
                        + SUMMARY_ERRORS * (SAMPLE_ERROR_CHARS + 9 + Digits(Len(dataset)))
                        + 2 * (SUMMARY_ERRORS - 1)

\* C19 witness: more than 10 samples failed in one invocation with messages
\* longer than 100 characters, and the job is COMPLETED with a summary of 3
\* entries cut to 100 characters of exception text.
C19_Witness ==
    /\ job.status = "COMPLETED"
    /\ job.failedSamples > MAX_SAMPLE_ERRORS
    /\ job.errorMessage.text = "samples failed"
    /\ Len(job.errorMessage.entries) = SUMMARY_ERRORS
    /\ \A k \in 1..SUMMARY_ERRORS :
        job.errorMessage.entries[k].chars = SAMPLE_ERROR_CHARS
    /\ dataset[1].error_len > SAMPLE_ERROR_CHARS
    /\ \E p \in Procs :
        /\ inv[p].pc = "finally"
        /\ Len(inv[p].failed_sample_errors) = MAX_SAMPLE_ERRORS

\* ---------------------------------------------------- batches of records

\* handler is invoked with an event of up to MaxBatch records.
DeliverBatch ==
    /\ \A q \in Procs : inv[q].pc = "idle"
    /\ StartBatch(1)

NextBatch ==
    \/ DeliverBatch
    \/ \E p \in Procs : NextRecord(p)
    \/ \E p \in Procs : NextRecordFail(p)
    \/ \E p \in Procs : Step(p)

\* The job's message is in the queue MaxBatch times (duplicates of the
\* start message), so that one event can hold several records.
InitBatch ==
    /\ job = [id |-> "job", status |-> "PENDING"]
    /\ queue = MaxBatch
    /\ queue_url = "https://sqs"
    /\ dataset \in UNION { [1..n -> ConcurrentOutcomes] :
                            n \in 1..MaxConcurrentSamples }
    /\ deliveries = 0
    /\ inv = [p \in Procs |-> IdleLocals]
    /\ call = NoCall
    /\ export = NoExport

SpecBatch == InitBatch /\ [][NextBatch]_vars

\* C20. handler takes the records of an event in order whatever the earlier
\* ones did, a record is appended to batchItemFailures exactly when its
\* processing ended by raising, and a record whose invocation checkpointed
\* and re-enqueued, or wrote COMPLETED, is not reported as a failure.
C20_BatchItemFailures ==
    [][\A p \in Procs :
        /\ (inv[p].pc = "record" /\ inv'[p] # inv[p]) =>
            \/ inv'[p].record = inv[p].record + 1
            \/ /\ inv'[p].pc = "idle"
               /\ Len(inv'[p].batch_item_failures) > 0
               /\ inv'[p].batch_item_failures[
                      Len(inv'[p].batch_item_failures)] = inv[p].record + 1
        /\ (inv[p].pc = "finally" /\ inv'[p].pc # "finally") =>
            /\ inv'[p].batch_item_failures =
                   IF inv'[p].result = "raised"
                   THEN Append(inv[p].batch_item_failures, inv[p].record)
                   ELSE inv[p].batch_item_failures
            /\ (inv[p].checkpointed \/ job.status = "COMPLETED") =>
                   inv'[p].batch_item_failures = inv[p].batch_item_failures
      ]_vars

\* ------------------------------------------------------- tables of jobs

\* The table named by the message of another job.
OtherTableName == "EvaluationJob-b"

\* The process handles the message of another job, which names another
\* table: process_evaluation_job from its first line to its return.  The
\* item it reads and writes has the other job's id, so of the state kept
\* here it changes the module-level _table_cache only; the table it used is
\* kept for inspection.
OtherJob(p) ==
    /\ inv[p].pc = "idle"
    /\ LET got == JobTable(p, OtherTableName)
       IN  inv' = [inv EXCEPT ![p] =
                    [Idle(p) EXCEPT !.eval_table_name = OtherTableName,
                                    !.job_table = got.table,
                                    !.table_cache = got.table_cache]]
    /\ UNCHANGED <<job, queue, queue_url, dataset, deliveries, call, export>>

DeliverOther ==
    /\ \A q \in Procs : inv[q].pc = "idle"
    /\ OtherJob(1)

NextTables == Next \/ DeliverOther

\* A job whose message names TableName, handled by a process that may
\* handle the message of another job before or after it.
InitTables ==
    /\ job = [id |-> "job", status |-> "PENDING"]
    /\ queue = 1
    /\ queue_url = "https://sqs"
    /\ dataset \in UNION { [1..n -> ConcurrentOutcomes] :
                            n \in 1..MaxConcurrentSamples }
    /\ deliveries = 0
    /\ inv = [p \in Procs |-> IdleLocals]
    /\ call = NoCall
    /\ export = NoExport

SpecTables == InitTables /\ [][NextTables]_vars

\* C21. Job isolation: the table an invocation reads and writes is the one
\* named by evaluationJobTableName in its own message, whatever messages the
\* process handled before.
C21_JobIsolation ==
    \A p \in Procs :
        inv[p].job_table # "" => inv[p].job_table = inv[p].eval_table_name

\* ------------------------------------------------- calls of metrics.py

\* The state of the evaluation engine while a function of metrics.py is
\* called on its own: no job is running.
machine_vars == <<job, queue, queue_url, dataset, deliveries, inv>>

NoJob ==
    /\ job = [id |-> "job", status |-> "PENDING"]
    /\ queue = 0
    /\ queue_url = ""
    /\ dataset = <<>>
    /\ deliveries = 0
    /\ inv = [p \in Procs |-> IdleLocals]

\* The strings of at most n characters over an alphabet.
StringsOver(alphabet, n) == UNION { [1..k -> alphabet] : k \in 0..n }

\* The arguments of levenshtein_distance: two strings of letters.
LevenshteinStrings == StringsOver({"a", "b"}, MaxLen)

InitLevenshtein ==
    /\ NoJob
    /\ export = NoExport
    /\ call \in { [fn |-> "levenshtein_distance", args |-> <<s1, s2>>,
                   returned |-> FALSE, ret |-> 0] :
                  s1 \in LevenshteinStrings, s2 \in LevenshteinStrings }

\* levenshtein_distance(s1, s2) is called and returns.
LevenshteinCall ==
    /\ call.fn = "levenshtein_distance"
    /\ ~call.returned
    /\ call' = [call EXCEPT
                  !.returned = TRUE,
                  !.ret = levenshtein_distance(call.args[1], call.args[2])]
    /\ UNCHANGED <<machine_vars, export>>

NextLevenshtein == LevenshteinCall

SpecLevenshtein == InitLevenshtein /\ [][NextLevenshtein]_vars

\* The strings made from s by one insertion, deletion or substitution of a
\* character of the alphabet, none longer than max_len.
OneEdit(s, alphabet, max_len) ==
    { SubSeq(s, 1, k - 1) \o SubSeq(s, k + 1, Len(s)) : k \in 1..Len(s) }
    \cup { [s EXCEPT ![k] = c] : k \in 1..Len(s), c \in alphabet }
    \cup (IF Len(s) < max_len
          THEN { SubSeq(s, 1, k) \o <<c>> \o SubSeq(s, k + 1, Len(s)) :
                    k \in 0..Len(s), c \in alphabet }
          ELSE {})

\* The least number of edits after which t is among the strings made from
\* the strings of `made`, which took n edits.
RECURSIVE MinEdits(_, _, _, _, _)
MinEdits(made, t, n, alphabet, max_len) ==
    IF t \in made THEN n
    ELSE MinEdits(made \cup UNION { OneEdit(s, alphabet, max_len) : s \in made },
                  t, n + 1, alphabet, max_len)

\* C22. levenshtein_distance(a, b) is the least number of single-character
\* insertions, deletions and substitutions that make b from a; it is 0 for
\* equal strings and len(a) when b is empty.
C22_LevenshteinIsMinimalEdits ==
    (call.fn = "levenshtein_distance" /\ call.returned) =>
        LET a == call.args[1]
            b == call.args[2]
        IN  /\ call.ret = MinEdits({a}, b, 0, {"a", "b"},
                                   IF Len(a) >= Len(b) THEN Len(a) ELSE Len(b))
            /\ a = b => call.ret = 0
            /\ b = <<>> => call.ret = Len(a)

\* A call with two different strings of the same length that differ in
\* more than a substitution has returned.
C22_Witness ==
    /\ call.fn = "levenshtein_distance"
    /\ call.returned
    /\ call.args = << <<"a", "b", "b">>, <<"b", "b", "a">> >>
    /\ call.ret = 2

\* C23. levenshtein_distance is symmetric, for strings of equal length
\* (where the arguments are not swapped) too.
C23_LevenshteinSymmetric ==
    (call.fn = "levenshtein_distance" /\ call.returned) =>
        call.ret = levenshtein_distance(call.args[2], call.args[1])

\* A call with two different strings of equal length has returned.
C23_Witness ==
    /\ call.fn = "levenshtein_distance"
    /\ call.returned
    /\ Len(call.args[1]) = Len(call.args[2])
    /\ call.args[1] # call.args[2]
    /\ call.ret = 1

\* The arguments of calculate_single_anls: strings of letters in both cases
\* and blanks, and a threshold: 0, 1/3, 0.5 (the default), 2/3, 1, and one
\* below 0 and one above 1.
AnlsStrings == StringsOver({"a", "B", " "}, MaxAnlsLen)

Thresholds ==
    {-DefaultThreshold, 0, 333333333, DefaultThreshold, 666666667, Scale,
     Scale + DefaultThreshold}

InitSingleAnls ==
    /\ NoJob
    /\ export = NoExport
    /\ call \in { [fn |-> "calculate_single_anls", args |-> <<p, g, t>>,
                   returned |-> FALSE, ret |-> 0] :
                  p \in AnlsStrings, g \in AnlsStrings, t \in Thresholds }

\* calculate_single_anls(prediction, ground_truth, threshold) is called and
\* returns.
SingleAnlsCall ==
    /\ call.fn = "calculate_single_anls"
    /\ ~call.returned
    /\ call' = [call EXCEPT
                  !.returned = TRUE,
                  !.ret = calculate_single_anls(call.args[1], call.args[2],
                                                call.args[3])]
    /\ UNCHANGED <<machine_vars, export>>

NextSingleAnls == SingleAnlsCall

SpecSingleAnls == InitSingleAnls /\ [][NextSingleAnls]_vars

\* What C24 says of a returned call of calculate_single_anls: 1.0 for two
\* empty normalised inputs, 0.0 for one, else the score s when s >= t and
\* 0.0 when s < t; and the result is 0 or lies in [t, 1].
SingleAnlsAsClaimed ==
    LET p == Strip(Lower(call.args[1]))
        g == Strip(Lower(call.args[2]))
        t == call.args[3]
        s == Scale - Quotient(levenshtein_distance(p, g),
                              IF Len(p) >= Len(g) THEN Len(p) ELSE Len(g))
    IN  /\ call.ret = IF p = <<>> /\ g = <<>> THEN Scale
                      ELSE IF p = <<>> \/ g = <<>> THEN 0
                      ELSE IF s >= t THEN s ELSE 0
        /\ call.ret = 0 \/ (t <= call.ret /\ call.ret <= Scale)

\* C24 as stated, for all thresholds.
C24_SingleAnlsAllThresholds ==
    (call.fn = "calculate_single_anls" /\ call.returned) => SingleAnlsAsClaimed

\* C24, amended. For all strings p, g and thresholds t <= 1,
\* calculate_single_anls(p, g, t) on the lower-cased, trimmed inputs is 1.0
\* when both are empty, 0.0 when exactly one is empty, and otherwise
\* s = 1 - distance/maxLength if s >= t and 0.0 if s < t; the result is 0 or
\* a value in [t, 1], and a score equal to the threshold is kept.
C24_SingleAnls ==
    (call.fn = "calculate_single_anls" /\ call.returned
        /\ call.args[3] <= Scale) => SingleAnlsAsClaimed

\* A call whose score equals its threshold, on inputs that need lower-casing
\* and trimming, has returned the score.
C24_Witness ==
    /\ call.fn = "calculate_single_anls"
    /\ call.returned
    /\ call.args = << <<" ", "a", "B">>, <<"a", "a">>, DefaultThreshold >>
    /\ call.ret = DefaultThreshold

\* The lines of a prediction and the ground-truth items given to
\* calculate_anls: the empty string, two items that differ in one of two
\* characters, and one that shares nothing with them.
AnlsItems == { <<>>, <<"a", "b">>, <<"a", "c">>, <<"c", "d">> }

\* '\n'.join(lines)
RECURSIVE JoinLines(_)
JoinLines(lines) ==
    IF lines = <<>> THEN <<>>
    ELSE IF Len(lines) = 1 THEN lines[1]
    ELSE lines[1] \o <<"\n">> \o JoinLines(Tail(lines))

\* The predictions: at most MaxLines lines.
Predictions ==
    { JoinLines(lines) :
        lines \in UNION { [1..k -> AnlsItems] : k \in 0..MaxLines } }

\* The lists of two ground-truth items (total_anls of three scores of 1.0
\* is beyond 32-bit integers in units of 10^-9).
GroundTruthLists == [1..2 -> AnlsItems]

InitAnls ==
    /\ NoJob
    /\ export = NoExport
    /\ call \in { [fn |-> "calculate_anls", args |-> <<p, g>>,
                   returned |-> FALSE, ret |-> 0] :
                  p \in Predictions, g \in GroundTruthLists }

\* calculate_anls(prediction, ground_truths) is called with the default
\* threshold and returns.
AnlsCall ==
    /\ call.fn = "calculate_anls"
    /\ ~call.returned
    /\ call' = [call EXCEPT
                  !.returned = TRUE,
                  !.ret = calculate_anls(call.args[1], call.args[2],
                                         DefaultThreshold)]
    /\ UNCHANGED <<machine_vars, export>>

NextAnls == AnlsCall

SpecAnls == InitAnls /\ [][NextAnls]_vars

\* A call of calculate_anls has returned.
AnlsReturned == call.fn = "calculate_anls" /\ call.returned

\* The ground-truth item is one of the lines of the prediction.
PresentVerbatim(gt, prediction) ==
    \E k \in 1..Len(SplitLines(prediction)) : SplitLines(prediction)[k] = gt

\* The number of ground-truth items, of those satisfying Counted, that are
\* lines of the prediction.
PresentCount(prediction, ground_truths, Counted(_)) ==
    Cardinality({ i \in 1..Len(ground_truths) :
                    /\ Counted(ground_truths[i])
                    /\ PresentVerbatim(ground_truths[i], prediction) })

AnyItem(gt) == TRUE
NonBlank(gt) == Strip(gt) # <<>>

\* The best score of a ground-truth item over the items of the prediction.
BestScore(gt, prediction) ==
    BestAnls(NonEmptyStripped(SplitLines(prediction)), gt,
             DefaultThreshold, 1, 0)

\* C25 as stated: with exactly k of the n items present verbatim as lines
\* of the prediction, the score is k/n, whatever the other items and lines.
C25_PresentItemsAllChoices ==
    AnlsReturned =>
        call.ret = Quotient(PresentCount(call.args[1], call.args[2], AnyItem),
                            Len(call.args[2]))

\* C25, amended. With k of the n ground-truth items non-blank and present
\* verbatim as lines of the prediction, calculate_anls is at least k/n; it
\* is k/n when every other item scores 0 against every line of the
\* prediction (below the threshold, or blank).
C25_PresentItems ==
    AnlsReturned =>
        LET prediction    == call.args[1]
            ground_truths == call.args[2]
            k_n == Quotient(PresentCount(prediction, ground_truths, NonBlank),
                            Len(ground_truths))
        IN  /\ call.ret >= k_n
            /\ (\A i \in 1..Len(ground_truths) :
                    \/ NonBlank(ground_truths[i])
                        /\ PresentVerbatim(ground_truths[i], prediction)
                    \/ BestScore(ground_truths[i], prediction) = 0)
                => call.ret = k_n

\* A call with one of two items present and the other unlike every line has
\* returned 0.5.
C25_Witness ==
    /\ AnlsReturned
    /\ call.args = << <<"a", "c", "\n", "a", "b">>,
                      << <<"a", "b">>, <<"c", "d">> >> >>
    /\ call.ret = DefaultThreshold

\* The lines of a prediction in the order given by a permutation of their
\* places.
Permuted(lines, perm) == [k \in 1..Len(lines) |-> lines[perm[k]]]

\* The score is the same for every order of the prediction's lines.
OrderIndependent ==
    LET lines == SplitLines(call.args[1])
    IN  \A perm \in Permutations(1..Len(lines)) :
            calculate_anls(JoinLines(Permuted(lines, perm)), call.args[2],
                           DefaultThreshold) = call.ret

\* C26 as stated: the score does not depend on the order of the lines, and
\* is 1.0 whenever every ground-truth item is one of the lines.
C26_OrderIndependentAllItems ==
    AnlsReturned =>
        /\ OrderIndependent
        /\ (\A i \in 1..Len(call.args[2]) :
                PresentVerbatim(call.args[2][i], call.args[1]))
            => call.ret = Scale

\* C26, amended. For n >= 2 ground-truth items, calculate_anls is
\* independent of the order of the prediction's lines, and it is 1.0
\* whenever every ground-truth item is non-blank and appears as one line of
\* the prediction.
C26_OrderIndependent ==
    AnlsReturned =>
        /\ OrderIndependent
        /\ (\A i \in 1..Len(call.args[2]) :
                /\ NonBlank(call.args[2][i])
                /\ PresentVerbatim(call.args[2][i], call.args[1]))
            => call.ret = Scale

\* A call whose prediction holds both items, in the other order, has
\* returned 1.0.
C26_Witness ==
    /\ AnlsReturned
    /\ call.args = << <<"c", "d", "\n", "a", "b">>,
                      << <<"a", "b">>, <<"c", "d">> >> >>
    /\ call.ret = Scale

\* C27. For n >= 2 ground-truth items, lines appended to a prediction never
\* lower calculate_anls, and a prediction with no non-empty line scores 0.0.
C27_ExtraLinesNeverPenalise ==
    AnlsReturned =>
        /\ \A extra \in Predictions :
                calculate_anls(call.args[1] \o <<"\n">> \o extra,
                               call.args[2], DefaultThreshold) >= call.ret
        /\ NonEmptyStripped(SplitLines(call.args[1])) = <<>> => call.ret = 0

\* A call whose prediction holds both items and a further line has returned
\* 1.0.
C27_Witness ==
    /\ AnlsReturned
    /\ call.args = << <<"a", "b", "\n", "a", "c">>,
                      << <<"a", "b">>, <<"a", "c">> >> >>
    /\ call.ret = Scale

\* The coordinate lists given to calculate_iou: every list of 4 coordinates
\* out of 0, 0.5 and 1 (boxes, boxes without area, lists with x0 > x1 or
\* y0 > y1), a box and an inverted list beyond the image, two boxes of the
\* largest coordinates, and lists of 0, 3 and 5 coordinates.
IouBoxes ==
    [1..4 -> {0, 1, 2}]
    \cup { <<-1, -1, 3, 3>>, <<3, -1, -1, 3>> }
    \cup { <<-FloatMax, 0, FloatMax, 0>>, <<0, 0, FloatMax, FloatMax>> }
    \cup { <<>>, <<0, 0, 1>>, <<0, 0, 1, 1, 2>> }

InitIou ==
    /\ NoJob
    /\ export = NoExport
    /\ call \in { [fn |-> "calculate_iou", args |-> <<a, b>>,
                   returned |-> FALSE, ret |-> 0] :
                  a \in IouBoxes, b \in IouBoxes }

\* calculate_iou(pred_bbox, gt_bbox) is called and returns.
IouCall ==
    /\ call.fn = "calculate_iou"
    /\ ~call.returned
    /\ call' = [call EXCEPT
                  !.returned = TRUE,
                  !.ret = calculate_iou(call.args[1], call.args[2])]
    /\ UNCHANGED <<machine_vars, export>>

NextIou == IouCall

SpecIou == InitIou /\ [][NextIou]_vars

\* A call of calculate_iou has returned.
IouReturned == call.fn = "calculate_iou" /\ call.returned

\* a == b of two floats: False when either is nan.
FEq(a, b) == ~IsNaN(a) /\ ~IsNaN(b) /\ a = b

\* C28. calculate_iou is symmetric: calculate_iou(a, b) ==
\* calculate_iou(b, a) for all coordinate lists of any length and
\* coordinate order.
C28_IouSymmetric ==
    IouReturned =>
        FEq(call.ret, calculate_iou(call.args[2], call.args[1]))

\* A list of 4 coordinates with x0 <= x1 and y0 <= y1.
IsBox(b) == Len(b) = 4 /\ b[1] <= b[3] /\ b[2] <= b[4]

PositiveArea(b) == Len(b) = 4 /\ b[1] < b[3] /\ b[2] < b[4]

\* C29. calculate_iou(b, b) == 1.0 for every box b of 4 coordinates with
\* positive area.
C29_IouOfBoxWithItself ==
    (IouReturned /\ call.args[1] = call.args[2]
        /\ PositiveArea(call.args[1])) => FEq(call.ret, Scale)

\* Two boxes whose interiors do not overlap: one has no area, or one ends
\* where or before the other begins.
InteriorsDisjoint(a, b) ==
    /\ IsBox(a)
    /\ IsBox(b)
    /\ \/ ~PositiveArea(a)
       \/ ~PositiveArea(b)
       \/ a[3] <= b[1]
       \/ b[3] <= a[1]
       \/ a[4] <= b[2]
       \/ b[4] <= a[2]

\* C30. calculate_iou returns exactly 0.0 for two boxes whose interiors do
\* not overlap, and whenever an argument does not have exactly 4
\* coordinates.
C30_IouZero ==
    (IouReturned
        /\ \/ Len(call.args[1]) # 4
           \/ Len(call.args[2]) # 4
           \/ InteriorsDisjoint(call.args[1], call.args[2]))
    => FEq(call.ret, 0)

\* C31. For all pairs of lists of 4 coordinates, boxes with inverted corners
\* and coordinates outside [0, 1] included, calculate_iou returns a value in
\* [0, 1].
C31_IouInUnitInterval ==
    (IouReturned /\ Len(call.args[1]) = 4 /\ Len(call.args[2]) = 4)
    => (FLe(0, call.ret) /\ FLe(call.ret, Scale))

\* The arguments of normalize_bbox: 4 coordinates, each a number of pixels
\* from -1 to MaxPixel, inf, -inf or nan, and a width and a height from -1 to
\* MaxDimension.
PixelCoordinates == (-1..MaxPixel) \cup {PosInf, NegInf, NaN}

Dimensions == -1..MaxDimension

InitNormalize ==
    /\ NoJob
    /\ export = NoExport
    /\ call \in { [fn |-> "normalize_bbox", args |-> <<b, w, h>>,
                   returned |-> FALSE, ret |-> 0] :
                  b \in [1..4 -> PixelCoordinates],
                  w \in Dimensions, h \in Dimensions }

\* normalize_bbox(bbox, width, height) is called and returns.
NormalizeCall ==
    /\ call.fn = "normalize_bbox"
    /\ ~call.returned
    /\ call' = [call EXCEPT
                  !.returned = TRUE,
                  !.ret = normalize_bbox(call.args[1], call.args[2],
                                         call.args[3])]
    /\ UNCHANGED <<machine_vars, export>>

NextNormalize == NormalizeCall

SpecNormalize == InitNormalize /\ [][NextNormalize]_vars

\* The number nearest to q in [0, 1], q being a number or inf or -inf.
Clamped(q) == IF q < 0 THEN 0 ELSE IF q > Micro THEN Micro ELSE q

\* C32. normalize_bbox returns 4 coordinates each in [0, 1]: the per-axis
\* quotient clamped to [0, 1] when width > 0 and height > 0, and exactly
\* [0, 0, 1, 1] when width <= 0 or height <= 0.
C32_NormalizeBbox ==
    (call.fn = "normalize_bbox" /\ call.returned) =>
        LET bbox   == call.args[1]
            width  == call.args[2]
            height == call.args[3]
            side(k) == IF k \in {1, 3} THEN width ELSE height
        IN  /\ Len(call.ret) = 4
            /\ \A k \in 1..4 : FLe(0, call.ret[k]) /\ FLe(call.ret[k], Micro)
            /\ (width > 0 /\ height > 0) =>
                  \A k \in 1..4 :
                      ~IsNaN(bbox[k]) =>
                          call.ret[k] = Clamped(PixelQuotient(bbox[k], side(k)))
            /\ (width <= 0 \/ height <= 0) =>
                  call.ret = <<0, 0, Micro, Micro>>

\* A call with a coordinate below 0, one inside and one beyond the image
\* has returned.
C32_Witness ==
    /\ call.fn = "normalize_bbox"
    /\ call.returned
    /\ call.args = << <<-1, 0, 1, 3>>, 2, 2 >>
    /\ call.ret = <<0, 0, 500000, Micro>>

\* C33. The part counter increases by exactly one per suspension: a
\* checkpoint written has the part of the checkpoint the invocation loaded
\* (which is the one in the record) plus one, 1 standing for no checkpoint;
\* so the persisted part never exceeds the number of invocations plus one.
C33_PartIncreasesByOne ==
    [][\A p \in Procs :
        (inv[p].pc = "loop" /\ inv'[p].pc = "reenqueue") =>
            /\ job'.checkpoint.part = Get(inv[p].checkpoint, "part", 1) + 1
            /\ job'.checkpoint.part =
                  (IF HasCheckpoint(job) THEN job.checkpoint.part ELSE 1) + 1
            /\ job'.checkpoint.part <= deliveries + 1
      ]_vars

\* A resumed invocation has suspended in its turn: the second checkpoint of
\* the job, part 3, is in the record.
C33_Witness ==
    /\ HasCheckpoint(job)
    /\ job.checkpoint.part = 3
    /\ job.checkpoint.sampleIndex > 0
    /\ \E p \in Procs : inv[p].pc = "reenqueue" /\ inv[p].is_resume

\* C34. startedAt is written by the first invocation of a job only: an
\* invocation that finds startedAt in the record (a resume after a
\* suspension at any index, a retry after a failure) sets status RUNNING
\* and updatedAt and leaves startedAt as it is.
C34_StartedAtWrittenOnce ==
    [][\A p \in Procs :
        (inv[p].pc = "idle" /\ inv'[p].pc = "setup"
            /\ "startedAt" \in DOMAIN job) =>
            /\ job'.status = "RUNNING"
            /\ job'.updatedAt = deliveries'
            /\ job'.startedAt = job.startedAt
      ]_vars

\* C35. Each processed dataset index is counted once, in samplesEvaluated
\* or in samplesFailed: under serial delivery every persisted checkpoint has
\* samplesEvaluated + samplesFailed = sampleIndex and every COMPLETED record
\* has totalSamples + failedSamples = len(dataset).
C35_CountedExactlyOnce ==
    /\ HasCheckpoint(job) =>
        job.checkpoint.samplesEvaluated + job.checkpoint.samplesFailed
            = job.checkpoint.sampleIndex
    /\ job.status = "COMPLETED" =>
        job.totalSamples + job.failedSamples = Len(dataset)

\* C36. Every invocation that suspends has made progress: the checkpoint it
\* persists has a sampleIndex strictly greater than the index at which the
\* invocation started, whatever time remained when it started.
C36_SuspensionMakesProgress ==
    [][\A p \in Procs :
        (inv[p].pc = "loop" /\ inv'[p].pc = "reenqueue") =>
            job'.checkpoint.sampleIndex > inv[p].start_index
      ]_vars

\* The attributes the except block writes.
FailedAttributes == {"status", "errorMessage", "updatedAt"}

\* C37. The step to FAILED leaves the persisted checkpoint and every
\* attribute other than status, errorMessage and updatedAt as they were, and
\* the invocation that retries the failed job starts its loop from the
\* sampleIndex and the aggregates of that checkpoint, not from index 0.
C37_FailedKeepsCheckpoint ==
    [][/\ (job.status # "FAILED" /\ job'.status = "FAILED") =>
            /\ DOMAIN job' = DOMAIN job \cup FailedAttributes
            /\ \A k \in DOMAIN job \ FailedAttributes : job'[k] = job[k]
       /\ \A p \in Procs :
            (inv[p].pc = "setup" /\ inv'[p].pc = "loop"
                /\ "errorMessage" \in DOMAIN job /\ HasCheckpoint(job)) =>
                /\ inv'[p].i = job.checkpoint.sampleIndex
                /\ inv'[p].agg.samples_evaluated
                       = job.checkpoint.samplesEvaluated
                /\ inv'[p].agg.samples_failed = job.checkpoint.samplesFailed
                /\ inv'[p].agg.running_anls = job.checkpoint.runningAnls
                /\ inv'[p].agg.running_iou = job.checkpoint.runningIou
      ]_vars

\* A job that failed while it held a checkpoint past index 0 (startedAt is
\* still that of the first invocation, so no invocation since has started
\* without one) has been retried, and the retry stands at the checkpoint's
\* index with samples still to do.
C37_Witness ==
    /\ HasCheckpoint(job) /\ "errorMessage" \in DOMAIN job
    /\ job.startedAt = 1 /\ deliveries > 1
    /\ job.checkpoint.sampleIndex > 0
    /\ inv[1].pc = "loop"
    /\ inv[1].i = job.checkpoint.sampleIndex
    /\ inv[1].i < inv[1].total_samples

\* ------------------------------------------------------------- liveness

\* A message is delivered to an invocation that starts with at least the
\* buffer of time left.
DeliverInTime ==
    /\ Deliver
    /\ inv'[1].remaining_ms >= CHECKPOINT_BUFFER_MS

NextLive == DeliverInTime \/ DeliverFail \/ \E p \in Procs : Step(p)

\* Serial delivery by SQS and execution by Lambda: a message that stays in
\* the queue is delivered in the end, and an invocation in progress takes
\* its next step in the end (every call it makes returns or raises).
SpecLive ==
    /\ Init
    /\ [][NextLive]_vars
    /\ WF_vars(DeliverInTime)
    /\ WF_vars(\E p \in Procs : Step(p))

\* C38. Liveness: when every invocation starts with at least the buffer of
\* time left, a job that has started (status RUNNING) reaches COMPLETED or
\* FAILED after finitely many invocations (within the deliveries counted).
C38_EventuallyTerminal ==
    (job.status = "RUNNING")
        ~> (job.status \in Terminal \/ deliveries = MaxDeliveries)

\* The jobs of the concurrent specification whose W&B logging can fail: a
\* sample is scored or failed by the predictor, and wandb.log for a scored
\* sample returns or raises.
ConcurrentLogOutcomes ==
    ConcurrentOutcomes \cup {o \in Outcomes : o.kind = "log_error"}

InitConcurrentLog ==
    /\ job = [id |-> "job", status |-> "PENDING"]
    /\ queue = 1
    /\ queue_url = "https://sqs"
    /\ dataset \in UNION { [1..n -> ConcurrentLogOutcomes] :
                            n \in 1..MaxConcurrentSamples }
    /\ deliveries = 0
    /\ inv = [p \in Procs |-> IdleLocals]
    /\ call = NoCall
    /\ export = NoExport

SpecConcurrentLog == InitConcurrentLog /\ [][NextConcurrent]_vars

\* C39. Under any interleaving of two invocations of the job, every
\* persisted checkpoint has samplesEvaluated + samplesFailed <= its own
\* sampleIndex and every COMPLETED record has totalSamples + failedSamples
\* <= len(dataset): no sample is counted twice in a persisted aggregate.
C39_ConcurrentCountsConsistent ==
    /\ HasCheckpoint(job) =>
        job.checkpoint.samplesEvaluated + job.checkpoint.samplesFailed
            <= job.checkpoint.sampleIndex
    /\ job.status = "COMPLETED" =>
        job.totalSamples + job.failedSamples <= Len(dataset)

\* ------------------------------------------------------- dataset export

\* Most approved annotations in the Annotation table.
MaxAnnotations == 101

\* Invocations of the export handler for one export.
MaxExports == 3

\* export-dataset/handler.py:181, processed_count % 100
CHECKPOINT_EVERY == 100

\* resumeFrom absent from the event (event.get('resumeFrom') is None).
None == 0

\* The approved annotations in the order the GSI query returns them, the
\* ids 1..n.  For each the outcome of process_annotation and of saving the
\* image: a record, None (no imageId, no image record, no compressed image,
\* an image that cannot be loaded), or an exception.  Each annotation has
\* an image of its own.
AnnotationTables ==
    { [i \in 1..n |->
         [id |-> i, kind |-> IF i = odd THEN kind ELSE "record"]] :
      n \in CHECKPOINT_EVERY..MaxAnnotations,
      odd \in {0, 1, CHECKPOINT_EVERY},
      kind \in {"none", "raises"} }

\* fetch_approved_annotations: all pages of the query; with resume_from,
\* the annotations after the first one whose id is resume_from, or all of
\* them when there is none.
fetch_approved_annotations(table, resume_from) ==
    LET found == {i \in 1..Len(table) : table[i].id = resume_from}
        resume_index == CHOOSE i \in found : \A j \in found : i <= j
    IN  IF resume_from # None /\ found # {}
        THEN SubSeq(table, resume_index + 1, Len(table))
        ELSE table

\* The locals of handler when no invocation is in progress; event and
\* response are those of the last invocation.
ExportReturned(event, response) ==
    [pc              |-> "idle",
     event           |-> event,
     response        |-> response,
     annotations     |-> <<>>,
     total_count     |-> 0,
     k               |-> 0,       \* annotations the loop has gone through
     processed_count |-> 0,
     metadata_rows   |-> <<>>]

\* The export's except block: status FAILED, errorMessage, updatedAt.
ExportFailedWrite(item, now) ==
    UpdateSet(item, [status |-> "FAILED",
                     errorMessage |-> Truncated(LibraryError),
                     updatedAt |-> now])

\* An export of the annotations of a table: no progress record yet, nothing
\* uploaded to the hub, the DatasetVersion record as created by the caller.
InitExport ==
    /\ NoJob
    /\ call = NoCall
    /\ export \in
        { [table    |-> table,
           progress |-> EmptyDict,
           version  |-> [id |-> "version"],
           hub      |-> <<>>,
           clock    |-> 0,
           locals   |-> ExportReturned([resumeFrom |-> None], 0)] :
          table \in AnnotationTables }

\* handler is invoked, without resumeFrom or with the annotation id of the
\* last checkpoint in the progress record: the progress record is created
\* when resumeFrom is absent, the annotations are fetched, totalCount is
\* written.
ExportStart ==
    /\ export.locals.pc = "idle"
    /\ export.clock < MaxExports
    /\ \E resume_from \in {None} \cup
            (IF "lastProcessedAnnotationId" \in DOMAIN export.progress
             THEN {export.progress.lastProcessedAnnotationId} ELSE {}) :
        LET now         == export.clock + 1
            created     == IF resume_from = None
                           THEN [id             |-> "export",
                                 exportId       |-> "export",
                                 version        |-> "v1",
                                 processedCount |-> 0,
                                 totalCount     |-> 0,
                                 status         |-> "IN_PROGRESS",
                                 startedAt      |-> now,
                                 createdAt      |-> now,
                                 updatedAt      |-> now]
                           ELSE export.progress
            annotations == fetch_approved_annotations(export.table,
                                                      resume_from)
        IN  export' = [export EXCEPT
                !.clock = now,
                !.progress = UpdateSet(created,
                                [totalCount |-> Len(annotations),
                                 updatedAt  |-> now]),
                !.locals = [ExportReturned([resumeFrom |-> resume_from], 0)
                            EXCEPT !.pc = "loop",
                                   !.annotations = annotations,
                                   !.total_count = Len(annotations)]]
    /\ UNCHANGED <<machine_vars, call>>

\* handler raises before the loop: get_hf_token or get_table (the progress
\* table not yet got, nothing is written), or the query (FAILED is
\* written); the response is 500.
ExportStartFail ==
    /\ export.locals.pc = "idle"
    /\ export.clock < MaxExports
    /\ \E have_progress_table \in BOOLEAN :
        LET now == export.clock + 1
        IN  export' = [export EXCEPT
                !.clock = now,
                !.progress = IF have_progress_table
                             THEN ExportFailedWrite(@, now) ELSE @,
                !.locals = ExportReturned([resumeFrom |-> None], 500)]
    /\ UNCHANGED <<machine_vars, call>>

\* One pass of the loop: a record gives a metadata row; a record or None
\* is counted, and every CHECKPOINT_EVERY counted annotations the count and
\* the annotation's id are written; an exception is printed and skipped.
ExportAnnotation ==
    /\ export.locals.pc = "loop"
    /\ export.locals.k < Len(export.locals.annotations)
    /\ LET annotation      == export.locals.annotations[export.locals.k + 1]
           counted         == annotation.kind # "raises"
           processed_count == export.locals.processed_count
                                + (IF counted THEN 1 ELSE 0)
       IN  export' = [export EXCEPT
               !.locals.k = @ + 1,
               !.locals.metadata_rows =
                   IF annotation.kind = "record"
                   THEN Append(@, annotation.id) ELSE @,
               !.locals.processed_count = processed_count,
               !.progress =
                   IF counted /\ processed_count % CHECKPOINT_EVERY = 0
                   THEN UpdateSet(@,
                           [processedCount |-> processed_count,
                            lastProcessedAnnotationId |-> annotation.id,
                            updatedAt |-> export.clock])
                   ELSE @]
    /\ UNCHANGED <<machine_vars, call>>

\* The invocation is ended from outside (the Lambda timeout) while in the
\* loop: nothing more is written and there is no response.
ExportTimeout ==
    /\ export.locals.pc = "loop"
    /\ export' = [export EXCEPT
                    !.locals = ExportReturned(export.locals.event, 0)]
    /\ UNCHANGED <<machine_vars, call>>

\* After the loop: ValueError when there is no metadata row (FAILED, 500);
\* else metadata.jsonl and the images are uploaded, the progress record
\* becomes COMPLETED and the DatasetVersion record READY, the response is
\* 200.
ExportFinish ==
    /\ export.locals.pc = "loop"
    /\ export.locals.k = Len(export.locals.annotations)
    /\ IF export.locals.metadata_rows = <<>>
       THEN export' = [export EXCEPT
                !.progress = ExportFailedWrite(@, export.clock),
                !.locals = ExportReturned(export.locals.event, 500)]
       ELSE export' = [export EXCEPT
                !.hub = export.locals.metadata_rows,
                !.progress = UpdateSet(@,
                    [status         |-> "COMPLETED",
                     processedCount |-> export.locals.processed_count,
                     totalCount     |-> export.locals.total_count,
                     updatedAt      |-> export.clock]),
                !.version = UpdateSet(@,
                    [status          |-> "READY",
                     huggingFaceUrl  |-> "https://huggingface.co/datasets/repo",
                     annotationCount |-> export.locals.processed_count,
                     imageCount      |-> Len(export.locals.metadata_rows),
                     updatedAt       |-> export.clock]),
                !.locals = ExportReturned(export.locals.event, 200)]
    /\ UNCHANGED <<machine_vars, call>>

\* After the loop: create_repo or upload_folder raises (nothing uploaded),
\* or upload_file of the dataset card raises (metadata.jsonl uploaded);
\* FAILED, 500.
ExportUploadFail ==
    /\ export.locals.pc = "loop"
    /\ export.locals.k = Len(export.locals.annotations)
    /\ export.locals.metadata_rows # <<>>
    /\ \E hub \in {export.hub, export.locals.metadata_rows} :
        export' = [export EXCEPT
            !.hub = hub,
            !.progress = ExportFailedWrite(@, export.clock),
            !.locals = ExportReturned(export.locals.event, 500)]
    /\ UNCHANGED <<machine_vars, call>>

NextExport ==
    \/ ExportStart
    \/ ExportStartFail
    \/ ExportAnnotation
    \/ ExportTimeout
    \/ ExportFinish
    \/ ExportUploadFail

SpecExport == InitExport /\ [][NextExport]_vars

\* The annotations an export of the table without interruption counts as
\* processed, and those it uploads a metadata row for.
CountedIds(table) ==
    {table[i].id : i \in {j \in 1..Len(table) : table[j].kind # "raises"}}

RecordIds(table) ==
    {table[i].id : i \in {j \in 1..Len(table) : table[j].kind = "record"}}

\* C40. An export invoked with resumeFrom set to a checkpointed annotation
\* id that completes has the processedCount and the uploaded metadata of
\* the export of all approved annotations without interruption, those
\* processed before the checkpoint included.
C40_ResumedExportCoversAll ==
    (/\ export.locals.pc = "idle"
     /\ export.locals.response = 200
     /\ export.locals.event.resumeFrom # None) =>
        /\ export.progress.status = "COMPLETED"
        /\ export.progress.processedCount
               = Cardinality(CountedIds(export.table))
        /\ {export.hub[i] : i \in 1..Len(export.hub)}
               = RecordIds(export.table)

====
